---- MODULE Spec2Model ----
(***************************************************************************)
(* Model of the AI intrusion detection system: the WebIDSApp of            *)
(* ai_ids_web_portable.py (classifier loading, packet parsing, feature     *)
(* extraction, classification, the monitoring loops and the request        *)
(* handlers) and the IntrusionDetector / RealTimeIDSMonitor constructors   *)
(* of src/deploy_model.py and src/realtime_monitor.py.                     *)
(*                                                                         *)
(* Conventions.  Python None is the string "None".  A Python call ends in  *)
(* an outcome record: Ret(v) for `return v`, Raise(e) for an exception     *)
(* that leaves the function.  A packet_info dict is a TLA+ function from   *)
(* field names to values (a missing key is a name outside its DOMAIN; None *)
(* in the place of a dict or list, {} and [] are all the empty function:   *)
(* all are falsy and all fail on subscripting).  The features dict is an   *)
(* insertion-ordered sequence of <<key, value>> pairs, as a Python dict    *)
(* is.  A number is the exact                                              *)
(* rational <<numerator, denominator>> (0.0 and 0 are both <<0, 1>>).      *)
(* An IPv4 address is its four bytes.                                      *)
(***************************************************************************)
EXTENDS Integers, Sequences, FiniteSets, TLC

\* ------------------------------------------------------------------ bounds

\* packets / poll cycles / simulated seconds the monitoring loops take in
MaxClock == 2
\* threads start_monitoring may spawn in one behaviour
MaxThreads == 2
\* appends of the capacity run (SpecFifo) beyond the deque's capacity
MaxOverflow == 3
\* longest history handed to extract_packet_features in SpecExtract
MaxHist == 2
\* packets the capture delivers to packet_handler in one run of the monitor
MaxArrivals == 3
\* calls of RealTimeIDSMonitor.stop_monitoring in one run
MaxStops == 2
\* IDSConfig instances built in one behaviour
MaxConfigs == 2
\* set and update_from_args calls in one behaviour
MaxSets == 2

\* ------------------------------------------------------- program constants

\* deque(maxlen=1000)
RecentPacketsMaxlen == 1000
\* list(recent_packets_list)[-100:]
WindowLen == 100
\* min(same_src_count, 100)
CountCap == 100
\* min(same_service_count, 50)
SrvCountCap == 50
\* min(dst_host_connections, 255)
DstHostCap == 255
\* packet[14:34]: length of the link-layer header on a Linux AF_PACKET socket
EthLen == 14
\* packet[:20]: the fixed part of the IPv4 header
IpHeaderLen == 20
\* queue.Queue(maxsize=1000)
QueueMaxsize == 1000
\* deque(maxlen=100) of recent_alerts
RecentAlertsMaxlen == 100
\* deque(maxlen=10) of alert times per source address
RateLimitMaxlen == 10
\* now - t < 60
RateWindow == 60
\* len(recent_alerts) > 5
RateMax == 5

\* IDSDashboard.__init__: deque(maxlen=1000)
DashboardAlertsMaxlen == 1000

\* ------------------------------------------------------------ Python values

None == "None"

Ret(v) == [kind |-> "return", val |-> v]

Raise(e) == [kind |-> "raise", val |-> e]

\* None where a dict, a list or a record is expected, and the empty dict and
\* list: all falsy, all the empty function; told from a value by Falsy
NoneDict == << >>

\* `not x` for a dict, a list or None
Falsy(x) == DOMAIN x = {}

\* Python slice s[a:b] on a sequence, 0-based, clipped to the sequence
Slice(s, a, b) ==
    LET lo == IF a < 0 THEN 0 ELSE a
        hi == IF b > Len(s) THEN Len(s) ELSE b
    IN IF hi <= lo THEN << >> ELSE SubSeq(s, lo + 1, hi)

\* a slice that keeps the whole list
WholeList(s, n) == s

\* Python s[-n:]: the last n elements (all of s when it is shorter)
LastN(s, n) == IF Len(s) <= n THEN s ELSE SubSeq(s, Len(s) - n + 1, Len(s))

\* sum(1 for p in s if p[k] == packet_info[k] and ...), k over keys
CountIf(s, keys, packet_info) ==
    Cardinality({i \in DOMAIN s : \A k \in keys : s[i][k] = packet_info[k]})

Min(a, b) == IF a < b THEN a ELSE b

Max(a, b) == IF a > b THEN a ELSE b

\* ---------------------------------------------------------------- numbers

Num(k) == <<k, 1>>

\* Python a / n on ints: ZeroDivisionError when n = 0
Div(a, n) == IF n = 0 THEN Raise("ZeroDivisionError") ELSE Ret(<<a, n>>)

\* 1 - r
OneMinus(r) == <<r[2] - r[1], r[2]>>

\* max(0, r)
MaxZero(r) == IF r[1] * r[2] < 0 THEN Num(0) ELSE r

NumEq(x, y) == x[1] * y[2] = y[1] * x[2]

NumLeq(x, y) == x[1] * y[2] <= y[1] * x[2]

NumAdd(x, y) == <<x[1] * y[2] + y[1] * x[2], x[2] * y[2]>>

\* ------------------------------------------------------ insertion-ordered dict

DictHas(d, k) == \E i \in DOMAIN d : d[i][1] = k

DictGet(d, k) == d[CHOOSE i \in DOMAIN d : d[i][1] = k][2]

\* d[k] = v
DictSet(d, k, v) ==
    IF DictHas(d, k)
    THEN [i \in DOMAIN d |-> IF d[i][1] = k THEN <<k, v>> ELSE d[i]]
    ELSE Append(d, <<k, v>>)

\* the keys of d, as a set
DictKeySet(d) == {d[i][1] : i \in DOMAIN d}

\* d[k] = v for each <<k, v>> of kvs, in order: a key d has keeps its place
\* and takes the last value given, a new key is appended where it first
\* occurs.  When the keys of kvs are new to d and pairwise distinct this is
\* d followed by kvs.
DictSetAll(d, kvs) ==
    IF /\ DictKeySet(d) \cap DictKeySet(kvs) = {}
       /\ Cardinality(DictKeySet(kvs)) = Len(kvs)
    THEN d \o kvs
    ELSE
    LET LastVal(k) ==
            kvs[CHOOSE j \in DOMAIN kvs :
                    /\ kvs[j][1] = k
                    /\ \A j2 \in (j + 1)..Len(kvs) : kvs[j2][1] # k][2]
        InKvs(k) == \E j \in DOMAIN kvs : kvs[j][1] = k
        kept == [i \in DOMAIN d |->
                    IF InKvs(d[i][1]) THEN <<d[i][1], LastVal(d[i][1])>> ELSE d[i]]
        firstNew == SelectSeq([j \in DOMAIN kvs |-> j],
                        LAMBDA j : /\ ~DictHas(d, kvs[j][1])
                                   /\ \A j2 \in 1..(j - 1) : kvs[j2][1] # kvs[j][1])
    IN kept \o [n \in DOMAIN firstNew |->
                  <<kvs[firstNew[n]][1], LastVal(kvs[firstNew[n]][1])>>]

DictKeys(d) == [i \in DOMAIN d |-> d[i][1]]

SeqToSet(s) == {s[i] : i \in DOMAIN s}

\* ------------------------------------------------------- feature schema

ai_feature_columns ==
    << "duration", "protocol_type", "service", "flag", "src_bytes",
       "dst_bytes", "land", "wrong_fragment", "urgent", "hot",
       "num_failed_logins", "logged_in", "num_compromised", "root_shell",
       "su_attempted", "num_root", "num_file_creations", "num_shells",
       "num_access_files", "num_outbound_cmds", "is_host_login",
       "is_guest_login", "count", "srv_count", "serror_rate",
       "srv_serror_rate", "rerror_rate", "srv_rerror_rate",
       "same_srv_rate", "diff_srv_rate", "srv_diff_host_rate",
       "dst_host_count", "dst_host_srv_count", "dst_host_same_srv_rate",
       "dst_host_diff_srv_rate", "dst_host_same_src_port_rate",
       "dst_host_srv_diff_host_rate", "dst_host_serror_rate",
       "dst_host_srv_serror_rate", "dst_host_rerror_rate",
       "dst_host_srv_rerror_rate" >>

\* an encoder that knows TCP only
EncodeProtocolTcpOnly(protocol_num) == IF protocol_num = 6 THEN 2 ELSE 0

\* protocol_map = {1: 1, 6: 2, 17: 3}; .get(protocol_num, 0)
encode_protocol(protocol_num) ==
    CASE protocol_num = 1 -> 1
      [] protocol_num = 6 -> 2
      [] protocol_num = 17 -> 3
      [] OTHER -> 0

service_map ==
    << <<21, 1>>, <<22, 2>>, <<23, 3>>, <<25, 4>>, <<53, 5>>, <<80, 6>>,
       <<110, 7>>, <<143, 8>>, <<443, 9>>, <<993, 10>>, <<995, 11>>,
       <<135, 12>>, <<139, 13>>, <<445, 14>>, <<1433, 15>>, <<3389, 16>>,
       <<5900, 17>>, <<6379, 18>> >>

\* service_map.get(port, 0)
encode_service(port) ==
    IF DictHas(service_map, port) THEN DictGet(service_map, port) ELSE 0

\* the keys extract_packet_features subscripts packet_info with
PacketKeysRead == {"protocol", "dst_port", "src_ip", "dst_ip"}

\* lines 141-162: the per-packet fields, in assignment order
BasicFeatures(packet_info) ==
    << <<"duration", Num(0)>>,
       <<"protocol_type", Num(encode_protocol(packet_info.protocol))>>,
       <<"service", Num(encode_service(packet_info.dst_port))>>,
       <<"flag", Num(1)>>,
       <<"src_bytes", Num(0)>>,
       <<"dst_bytes", Num(0)>>,
       <<"land", Num(IF packet_info.src_ip = packet_info.dst_ip THEN 1 ELSE 0)>>,
       <<"wrong_fragment", Num(0)>>,
       <<"urgent", Num(0)>>,
       <<"hot", Num(0)>>,
       <<"num_failed_logins", Num(0)>>,
       <<"logged_in", Num(0)>>,
       <<"num_compromised", Num(0)>>,
       <<"root_shell", Num(0)>>,
       <<"su_attempted", Num(0)>>,
       <<"num_root", Num(0)>>,
       <<"num_file_creations", Num(0)>>,
       <<"num_shells", Num(0)>>,
       <<"num_access_files", Num(0)>>,
       <<"num_outbound_cmds", Num(0)>>,
       <<"is_host_login", Num(0)>>,
       <<"is_guest_login", Num(0)>> >>

\* lines 183-186 and 190-191: same_srv_rate
SameSrvRateUnguarded(same_srv_from_src, same_src_count) ==
    Div(same_srv_from_src, same_src_count)

SameSrvRate(same_srv_from_src, same_src_count) ==
    IF same_src_count > 0
    THEN Div(same_srv_from_src, same_src_count)
    ELSE Ret(Num(0))

\* lines 183, 188-189 and 192: diff_srv_rate
DiffSrvRate(same_srv_from_src, same_src_count) ==
    IF same_src_count > 0
    THEN Div(same_src_count - same_srv_from_src, same_src_count)
    ELSE Ret(Num(0))

\* lines 166-207: the window statistics when the history is not empty
WindowFeatures(packet_info, recent_packets_list) ==
    LET w == LastN(recent_packets_list, WindowLen)
        same_src_count ==
            CountIf(w, {"src_ip"}, packet_info)
        same_service_count ==
            CountIf(w, {"dst_port"}, packet_info)
        same_srv_from_src ==
            CountIf(w, {"src_ip", "dst_port"}, packet_info)
        same_srv_rate == SameSrvRate(same_srv_from_src, same_src_count)
        diff_srv_rate == DiffSrvRate(same_srv_from_src, same_src_count)
        dst_host_connections ==
            CountIf(w, {"dst_ip"}, packet_info)
        dst_host_same_srv_rate ==
            Div(same_service_count, Max(dst_host_connections, 1))
    IN  IF same_srv_rate.kind = "raise" THEN same_srv_rate
        ELSE IF diff_srv_rate.kind = "raise" THEN diff_srv_rate
        ELSE IF dst_host_same_srv_rate.kind = "raise" THEN dst_host_same_srv_rate
        ELSE Ret(
          << <<"count", Num(Min(same_src_count, CountCap))>>,
             <<"srv_count", Num(Min(same_service_count, SrvCountCap))>>,
             <<"serror_rate", Num(0)>>,
             <<"srv_serror_rate", Num(0)>>,
             <<"rerror_rate", Num(0)>>,
             <<"srv_rerror_rate", Num(0)>>,
             <<"same_srv_rate", same_srv_rate.val>>,
             <<"diff_srv_rate", diff_srv_rate.val>>,
             <<"srv_diff_host_rate", Num(0)>>,
             <<"dst_host_count", Num(Min(dst_host_connections, DstHostCap))>>,
             <<"dst_host_srv_count", Num(Min(same_service_count, DstHostCap))>>,
             <<"dst_host_same_srv_rate", dst_host_same_srv_rate.val>>,
             <<"dst_host_diff_srv_rate",
               MaxZero(OneMinus(dst_host_same_srv_rate.val))>>,
             <<"dst_host_same_src_port_rate", Num(0)>>,
             <<"dst_host_srv_diff_host_rate", Num(0)>>,
             <<"dst_host_serror_rate", Num(0)>>,
             <<"dst_host_srv_serror_rate", Num(0)>>,
             <<"dst_host_rerror_rate", Num(0)>>,
             <<"dst_host_srv_rerror_rate", Num(0)>> >>)

\* a plausible slip: the defaults list without its first two names
DefaultFeaturesShort ==
    [i \in 1..17 |->
        << << "serror_rate", "srv_serror_rate",
              "rerror_rate", "srv_rerror_rate", "same_srv_rate", "diff_srv_rate",
              "srv_diff_host_rate", "dst_host_count", "dst_host_srv_count",
              "dst_host_same_srv_rate", "dst_host_diff_srv_rate",
              "dst_host_same_src_port_rate", "dst_host_srv_diff_host_rate",
              "dst_host_serror_rate", "dst_host_srv_serror_rate",
              "dst_host_rerror_rate", "dst_host_srv_rerror_rate" >>[i],
           Num(0) >>]

\* lines 211-215: the names the loop of the else branch runs over
DefaultNames ==
    << "count", "srv_count", "serror_rate", "srv_serror_rate",
       "rerror_rate", "srv_rerror_rate", "same_srv_rate", "diff_srv_rate",
       "srv_diff_host_rate", "dst_host_count", "dst_host_srv_count",
       "dst_host_same_srv_rate", "dst_host_diff_srv_rate",
       "dst_host_same_src_port_rate", "dst_host_srv_diff_host_rate",
       "dst_host_serror_rate", "dst_host_srv_serror_rate",
       "dst_host_rerror_rate", "dst_host_srv_rerror_rate" >>

\* lines 211-218: the defaults when there is no history
DefaultFeatures == [i \in DOMAIN DefaultNames |-> <<DefaultNames[i], Num(0)>>]

\* extract_packet_features(packet_info, recent_packets_list): Ret(NoneDict),
\* Ret(features) or Raise(KeyError / ZeroDivisionError)
extract_packet_features(packet_info, recent_packets_list) ==
    IF DOMAIN packet_info = {} THEN Ret(NoneDict)
    ELSE IF ~(PacketKeysRead \subseteq DOMAIN packet_info) THEN Raise("KeyError")
    ELSE IF Len(recent_packets_list) > 0
    THEN LET wf == WindowFeatures(packet_info, recent_packets_list)
         IN IF wf.kind = "raise" THEN wf
            ELSE Ret(DictSetAll(DictSetAll(<< >>, BasicFeatures(packet_info)),
                                wf.val))
    ELSE Ret(DictSetAll(DictSetAll(<< >>, BasicFeatures(packet_info)),
                        DefaultFeatures))

\* ---------------------------------------------------------- classification

\* what self.ml_model.predict(feature_df)[0] can do: answer a label, or raise
\* (a model trained on another shape)
Predictions == {Ret("normal"), Ret("neptune"), Raise("ValueError")}

\* f"AI-Detected {prediction.title()} Attack"
ThreatType(prediction) ==
    CASE prediction = "neptune" -> "AI-Detected Neptune Attack"
      [] prediction = "portsweep" -> "AI-Detected Portsweep Attack"
      [] OTHER -> "AI-Detected Attack"

\* f"{threat_type} from {packet_info['src_ip']}"; split(' from ')[0] is .type
Threat(threat_type, src_ip) == [type |-> threat_type, src |-> src_ip]

\* lines 250-258: DataFrame([features]), the missing columns set to 0, then
\* reordered by ai_feature_columns: the row handed to predict
ModelInput(features) ==
    LET missing == SelectSeq(ai_feature_columns, LAMBDA c : ~DictHas(features, c))
        filled == DictSetAll(features, [i \in DOMAIN missing |-> <<missing[i], Num(0)>>])
    IN [i \in DOMAIN ai_feature_columns |-> DictGet(filled, ai_feature_columns[i])]

\* lines 245-266: the body of the try block
AiDetectBody(packet_info, recent_packets_list, prediction) ==
    LET features == extract_packet_features(packet_info, recent_packets_list)
    IN  IF features.kind = "raise" THEN features
        ELSE IF Falsy(features.val) THEN Ret(<< >>)
        ELSE IF prediction.kind = "raise" THEN prediction
        ELSE IF prediction.val # "normal"
             THEN Ret(<< Threat(ThreatType(prediction.val), packet_info.src_ip) >>)
             ELSE Ret(<< >>)

\* the outcome of ai_detect_threats: the list returned, and whether the
\* except block of lines 268-269 ran and printed the error
Detected(threats, error_printed) ==
    [kind |-> "return", val |-> threats, error_printed |-> error_printed]

\* a disabled-check that subscripts the packet first
AiDetectNoGuard(model, available, packet_info, recent_packets_list, prediction) ==
    LET body == AiDetectBody(packet_info, recent_packets_list, prediction)
    IN IF body.kind = "raise" THEN body ELSE Detected(body.val, FALSE)

\* ai_detect_threats: the guard of line 240, then the try block, whose
\* exceptions end in `return []`
ai_detect_threats(model, available, packet_info, recent_packets_list, prediction) ==
    IF model = None \/ ~available THEN Detected(<< >>, FALSE)
    ELSE LET body == AiDetectBody(packet_info, recent_packets_list, prediction)
         IN IF body.kind = "raise" THEN Detected(<< >>, TRUE)
            ELSE Detected(body.val, FALSE)

\* self.threat_breakdown[threat_type] += 1 on a defaultdict(int)
BreakdownInc(breakdown, threat_type) ==
    IF threat_type \in DOMAIN breakdown
    THEN [breakdown EXCEPT ![threat_type] = @ + 1]
    ELSE breakdown @@ (threat_type :> 1)

RECURSIVE BreakdownIncAll(_, _)
BreakdownIncAll(breakdown, threats) ==
    IF Len(threats) = 0 THEN breakdown
    ELSE BreakdownIncAll(BreakdownInc(breakdown, Head(threats).type), Tail(threats))

\* detect_threats: [ret |-> outcome, threat_breakdown |-> the counters after]
detect_threats(model, available, breakdown, packet_info, recent_packets_list, prediction) ==
    IF Falsy(packet_info)
    THEN [ret |-> Detected(<< >>, FALSE), threat_breakdown |-> breakdown]
    ELSE IF model # None
    THEN LET ai_threats == ai_detect_threats(model, available, packet_info,
                                             recent_packets_list, prediction)
         IN IF ai_threats.kind = "raise"
            THEN [ret |-> ai_threats, threat_breakdown |-> breakdown]
            ELSE [ret |-> ai_threats,
                  threat_breakdown |-> BreakdownIncAll(breakdown, ai_threats.val)]
    ELSE [ret |-> Detected(<< >>, FALSE), threat_breakdown |-> breakdown]

\* the keys analyze_connection_for_threats subscripts the connection with
ConnectionKeysRead ==
    {"remote_ip", "local_ip", "remote_port", "local_port", "protocol", "timestamp"}

\* lines 687-694: the connection as a packet record
ConnectionPacket(connection) ==
    [src_ip |-> connection.remote_ip, dst_ip |-> connection.local_ip,
     src_port |-> connection.remote_port, dst_port |-> connection.local_port,
     protocol |-> IF connection.protocol = "TCP" THEN 6 ELSE 17,
     timestamp |-> connection.timestamp]

\* analyze_connection_for_threats: the dict literal of line 687 is outside
\* any try block
analyze_connection_for_threats(model, available, connection, recent_packets_list, prediction) ==
    IF model = None THEN Detected(<< >>, FALSE)
    ELSE IF ~(ConnectionKeysRead \subseteq DOMAIN connection) THEN Raise("KeyError")
    ELSE ai_detect_threats(model, available, ConnectionPacket(connection),
                           recent_packets_list, prediction)

\* -------------------------------------------------------------- parsing

\* struct.unpack('!HH', b): two big-endian 16-bit integers
UnpackHH(b) == << b[1] * 256 + b[2], b[3] * 256 + b[4] >>

\* lines 322-359: the body of the try block of parse_ip_packet
ParseBody(packet, os_name, now) ==
    LET off == IF os_name = "nt" THEN 0 ELSE EthLen
        ip_header == Slice(packet, off, off + IpHeaderLen)
    IN  IF Len(ip_header) # IpHeaderLen THEN Raise("struct.error")
        ELSE
        LET version_ihl == ip_header[1]
            version == version_ihl \div 16
            ihl == version_ihl % 16
            protocol == ip_header[10]
            src_ip == SubSeq(ip_header, 13, 16)
            dst_ip == SubSeq(ip_header, 17, 20)
            header_length == ihl * 4
            transport_header ==
                Slice(packet, off + header_length, off + header_length + 4)
            ports == IF protocol \in {6, 17} /\ Len(transport_header) >= 4
                     THEN UnpackHH(transport_header)
                     ELSE <<0, 0>>
        IN  IF version # 4 THEN Ret(NoneDict)
            ELSE Ret([src_ip |-> src_ip, dst_ip |-> dst_ip,
                      src_port |-> ports[1], dst_port |-> ports[2],
                      protocol |-> protocol, timestamp |-> now])

\* a parser without the try / except of lines 321 and 360
ParseUncaught(packet, os_name, now) == ParseBody(packet, os_name, now)

\* parse_ip_packet: `except Exception: return None`
parse_ip_packet(packet, os_name, now) ==
    LET body == ParseBody(packet, os_name, now)
    IN IF body.kind = "raise" THEN Ret(NoneDict) ELSE body

\* ------------------------------------------------------- classifier loading

QuickPath == "models/random_forest_model_quick.joblib"

TunedPath == "models/random_forest_model_tuned.joblib"

UserPath == "/tmp/user_model.joblib"

ModelPaths == {QuickPath, TunedPath, UserPath}

\* a model file: absent, a loadable model, or a file joblib.load fails on
FileStates == {"missing", "valid", "corrupt"}

\* load_ai_model: the value of self.ml_model afterwards (None at line 65)
load_ai_model(available, fs) ==
    IF ~available THEN None
    ELSE IF fs[QuickPath] = "missing" THEN None
    ELSE IF fs[QuickPath] = "valid" THEN "model"
    ELSE None

\* IntrusionDetector._load_model: joblib.load, any failure re-raised
LoadModel(model_path, fs) ==
    IF fs[model_path] = "valid" THEN Ret("model") ELSE Raise("Exception")

\* IntrusionDetector.__init__
IntrusionDetectorInit(model_path, fs) ==
    LET path == IF model_path = None THEN TunedPath ELSE model_path
        model == LoadModel(path, fs)
    IN IF model.kind = "raise" THEN model
       ELSE Ret([model |-> model.val, feature_names |-> None])

\* the processing thread: where it is in process_packets, and the packet it
\* holds ("none": not spawned yet)
Worker(pc, held) == [pc |-> pc, packet |-> held]

\* RealTimeIDSMonitor.__init__: the detector is built at line 184; sniffing
\* and processing_thread are the capture and the thread start_monitoring
\* runs, now the wall clock in seconds
RealTimeIDSMonitorInit(model_path, fs) ==
    LET detector == IntrusionDetectorInit(model_path, fs)
    IN IF detector.kind = "raise" THEN detector
       ELSE Ret([detector |-> detector.val,
                 is_running |-> FALSE,
                 packet_queue |-> << >>,
                 recent_alerts |-> << >>,
                 packets_processed |-> 0,
                 threats_detected |-> 0,
                 alert_threshold |-> <<8, 10>>,
                 rate_limit |-> << >>,
                 alert_file |-> << >>,
                 started |-> FALSE,
                 sniffing |-> FALSE,
                 processing_thread |-> Worker("none", NoneDict),
                 now |-> 0])

\* ------------------------------------------------------------------ state

VARIABLES
    \* the environment
    ML_AVAILABLE,          \* module global: joblib and pandas were imported
    fs,                    \* the model files on disk: path -> FileStates
    os_name,               \* os.name: "nt" or "posix"
    \* WebIDSApp
    app,                   \* "unconstructed" | "constructed"
    ml_model,              \* None | "model"
    is_monitoring,
    simulation_mode,       \* config['simulation_mode']
    sensitivity,           \* config['sensitivity']
    monitoring_mode,       \* "unset" (no attribute) | "raw_socket" | "connection_monitor"
    socket,                \* None | "open"
    packets_analyzed,
    threats_detected,
    detected_threats_log,
    threat_breakdown,
    recent_packets,        \* deque(maxlen=1000)
    threads,               \* the monitor threads start_monitoring has spawned
    clock,                 \* time.time(): one tick per packet, poll or simulated second
    \* IntrusionDetector / RealTimeIDSMonitor construction
    detector,              \* outcome of IntrusionDetector(model_path), or NoneDict
    monitor,               \* outcome of RealTimeIDSMonitor(model_path=...), or NoneDict
    \* direct calls of the methods
    packet_info,           \* the event record a call is made with
    packet,                \* the byte buffer a call is made with
    calls,                 \* the calls made so far, each with its outcome
    \* history of the pipeline
    processed,             \* the events the packet loop has parsed, in order
    extraction,            \* the last extract_packet_features call of the loop
    \* IDSConfig
    config_files,          \* the configuration files on disk: path -> file
    config_heap,           \* the section dicts in memory, by object identity
    configs,               \* the IDSConfig instances: section name -> object
    \* IntegratedIDS
    dashboard              \* self.dashboard: NoneDict | the IDSDashboard

vars == << ML_AVAILABLE, fs, os_name, app, ml_model, is_monitoring,
           simulation_mode, sensitivity, monitoring_mode, socket,
           packets_analyzed, threats_detected, detected_threats_log,
           threat_breakdown, recent_packets, threads, clock, detector,
           monitor, packet_info, packet, calls, processed, extraction,
           config_files, config_heap, configs, dashboard >>

envVars == << ML_AVAILABLE, fs, os_name >>

appVars == << app, ml_model, is_monitoring, simulation_mode, sensitivity,
              monitoring_mode, socket, packets_analyzed, threats_detected,
              detected_threats_log, threat_breakdown, recent_packets,
              threads, clock >>

ctorVars == << detector, monitor >>

callVars == << packet_info, packet, calls >>

ghostVars == << processed, extraction >>

configVars == << config_files, config_heap, configs >>

\* WebIDSApp.__init__ (lines 50-109) with load_ai_model at line 81; the
\* deque starts empty, `history` is what it holds when the run starts
AppConstructed(available, files, history) ==
    /\ app = "constructed"
    /\ ml_model = load_ai_model(available, files)
    /\ is_monitoring = FALSE
    /\ simulation_mode = TRUE
    /\ sensitivity = 50
    /\ monitoring_mode = "unset"
    /\ socket = None
    /\ packets_analyzed = 0
    /\ threats_detected = 0
    /\ detected_threats_log = << >>
    /\ threat_breakdown = << >>
    /\ recent_packets = history
    /\ threads = << >>
    /\ clock = 0

NoCtor == detector = NoneDict /\ monitor = NoneDict

NoGhost == processed = << >> /\ extraction = NoneDict

\* IntegratedIDS.__init__: self.dashboard = None
NoDashboard == dashboard = NoneDict

\* no IDSConfig is in play
NoConfig == config_files = << >> /\ config_heap = << >> /\ configs = << >>

\* only the quick model file on disk, in state q
QuickOnly(q) == [p \in ModelPaths |-> IF p = QuickPath THEN q ELSE "missing"]

\* ----------------------------------------------------------------- inputs

IpA == <<10, 0, 0, 1>>

IpB == <<10, 0, 0, 2>>

Event(src_ip, dst_ip, src_port, dst_port, protocol, timestamp) ==
    [src_ip |-> src_ip, dst_ip |-> dst_ip, src_port |-> src_port,
     dst_port |-> dst_port, protocol |-> protocol, timestamp |-> timestamp]

\* well-formed events: a table port and an unknown one, TCP and a protocol
\* outside the protocol map, source equal to the destination or not
TestEvents ==
    {Event(s, d, 40000, dp, pr, 0) :
        s \in {IpA, IpB}, d \in {IpA, IpB}, dp \in {80, 443}, pr \in {6, 47}}

HistoryEvents ==
    {Event(s, d, 40000, dp, 6, 0) : s \in {IpA, IpB}, d \in {IpA, IpB}, dp \in {80, 443}}

SeqsUpTo(S, n) == UNION {[1..k -> S] : k \in 0..n}

\* histories longer than the window and as long as the deque: one event
\* followed by copies of another
LongHistories ==
    {[i \in 1..n |-> IF i = 1 THEN e1 ELSE e2] :
        n \in {WindowLen + 1, RecentPacketsMaxlen},
        e1 \in {Event(IpA, IpB, 40000, 80, 6, 0)},
        e2 \in {Event(IpA, IpB, 40000, 80, 6, 0), Event(IpB, IpA, 40000, 443, 6, 0)}}

TestHistories == SeqsUpTo(HistoryEvents, MaxHist) \cup LongHistories

\* ------------------------------------------- extract_packet_features, called

\* a plausible slip: the extractor commits the event itself
ExtractCommits(event, recent_packets_list) == Append(recent_packets_list, event)

\* what the call leaves in the caller's deque: line 166 rebinds the local
\* name to a new list, nothing is appended or removed
ExtractLeaves(event, recent_packets_list) == recent_packets_list

InitExtract ==
    /\ ML_AVAILABLE = TRUE /\ fs = QuickOnly("valid") /\ os_name = "posix"
    /\ \E h \in TestHistories : AppConstructed(ML_AVAILABLE, fs, h)
    /\ NoCtor /\ NoGhost /\ NoDashboard /\ NoConfig
    /\ packet_info \in TestEvents
    /\ packet = << >>
    /\ calls = << >>

\* self.extract_packet_features(packet_info, self.recent_packets), and the
\* row the model would be given for the result
ExtractCall ==
    /\ Len(calls) < 2
    /\ LET r == extract_packet_features(packet_info, recent_packets)
       IN calls' = Append(calls,
                     [fn |-> "extract_packet_features",
                      history |-> recent_packets,
                      ret |-> r,
                      row |-> IF r.kind = "return" /\ ~Falsy(r.val)
                              THEN ModelInput(r.val) ELSE << >>])
    /\ recent_packets' = ExtractLeaves(packet_info, recent_packets)
    /\ UNCHANGED << envVars, configVars, dashboard, app, ml_model, is_monitoring, simulation_mode,
                    sensitivity, monitoring_mode, socket, packets_analyzed,
                    threats_detected, detected_threats_log, threat_breakdown,
                    threads, clock, ctorVars, packet_info, packet, ghostVars >>

NextExtract == ExtractCall

SpecExtract == InitExtract /\ [][NextExtract]_vars

\* events of the trailing window sharing the event's source address
SameSourceInWindow(event, history) ==
    CountIf(LastN(history, WindowLen), {"src_ip"}, event)

\* C6: every extract_packet_features call returns (no ZeroDivisionError);
\* same_srv_rate + diff_srv_rate = 1 when some windowed event shares the
\* event's source address, and both rates are 0 when none does
C6_ServiceRatesSumToOne ==
    \A i \in DOMAIN calls :
        calls[i].fn = "extract_packet_features" =>
            /\ calls[i].ret.kind = "return"
            /\ LET f == calls[i].ret.val
                   same == DictGet(f, "same_srv_rate")
                   diff == DictGet(f, "diff_srv_rate")
               IN IF SameSourceInWindow(packet_info, calls[i].history) > 0
                  THEN NumEq(NumAdd(same, diff), Num(1))
                  ELSE NumEq(same, Num(0)) /\ NumEq(diff, Num(0))

\* a call whose window holds two events of the source, one to the same port
C6_Witness ==
    /\ Len(calls) > 0
    /\ calls[1].fn = "extract_packet_features"
    /\ SameSourceInWindow(packet_info, calls[1].history) = 2
    /\ calls[1].ret.kind = "return"
    /\ NumEq(DictGet(calls[1].ret.val, "same_srv_rate"), <<1, 2>>)
    /\ NumEq(DictGet(calls[1].ret.val, "diff_srv_rate"), <<1, 2>>)

\* C8: every extract_packet_features call returns exactly the 41 fields of
\* ai_feature_columns, each once, whatever the history length, and the row
\* given to the model lists their values in the ai_feature_columns order
C8_FixedFieldsAndOrder ==
    \A i \in DOMAIN calls :
        calls[i].fn = "extract_packet_features" =>
            /\ calls[i].ret.kind = "return"
            /\ Len(calls[i].ret.val) = Len(ai_feature_columns)
            /\ SeqToSet(DictKeys(calls[i].ret.val)) = SeqToSet(ai_feature_columns)
            /\ Len(calls[i].row) = Len(ai_feature_columns)
            /\ \A k \in DOMAIN ai_feature_columns :
                  calls[i].row[k] = DictGet(calls[i].ret.val, ai_feature_columns[k])

\* a call on an empty history that returned the 41 fields
C8_Witness ==
    /\ Len(calls) > 0
    /\ calls[1].fn = "extract_packet_features"
    /\ calls[1].history = << >>
    /\ calls[1].ret.kind = "return"
    /\ Len(calls[1].ret.val) = 41
    /\ Len(calls[1].row) = 41

Bytes16(n) == << n \div 256, n % 256 >>

Zeros(n) == [i \in 1..n |-> 0]

\* the 20 fixed bytes of an IP header
IpHeaderBytes(version, ihl, protocol, src_ip, dst_ip) ==
    << version * 16 + ihl, 0, 0, 0, 0, 0, 0, 0, 64, protocol, 0, 0 >>
        \o src_ip \o dst_ip

\* a captured frame: `link` bytes of link-layer header, the IP header with
\* its options, then the first eight bytes of the transport header
Frame(link, version, ihl, protocol, src_ip, dst_ip, src_port, dst_port) ==
    Zeros(link) \o IpHeaderBytes(version, ihl, protocol, src_ip, dst_ip)
        \o Zeros(IF ihl > 5 THEN (ihl - 5) * 4 ELSE 0)
        \o Bytes16(src_port) \o Bytes16(dst_port) \o Zeros(4)

TestFrames ==
    {Frame(link, version, ihl, protocol, IpA, dst, 40000, 80) :
        link \in {0, EthLen}, version \in {4, 6}, ihl \in {5, 6},
        protocol \in {1, 6, 17}, dst \in {IpA, IpB}}

\* every frame, and every truncation of it
TestBuffers == UNION {{Slice(f, 0, n) : n \in 0..Len(f)} : f \in TestFrames}

InitParse ==
    /\ ML_AVAILABLE = TRUE /\ fs = QuickOnly("valid")
    /\ os_name \in {"nt", "posix"}
    /\ AppConstructed(ML_AVAILABLE, fs, << >>)
    /\ NoCtor /\ NoGhost /\ NoDashboard /\ NoConfig
    /\ packet_info = NoneDict
    /\ packet \in TestBuffers
    /\ calls = << >>

\* self.parse_ip_packet(packet)
ParseCall ==
    /\ Len(calls) < 1
    /\ calls' = Append(calls, [fn |-> "parse_ip_packet",
                               ret |-> parse_ip_packet(packet, os_name, clock)])
    /\ UNCHANGED << envVars, configVars, dashboard, appVars, ctorVars, packet_info, packet, ghostVars >>

NextParse == ParseCall

SpecParse == InitParse /\ [][NextParse]_vars

\* where the capture mode puts the IP header
HeaderOffset == IF os_name = "nt" THEN 0 ELSE EthLen

\* C10: parse_ip_packet returns for every buffer (an event record or None);
\* a buffer whose version field is not 4, and a buffer too short for the 20
\* header bytes at the capture mode's offset, is rejected
C10_ParseNeverRaises ==
    \A i \in DOMAIN calls :
        calls[i].fn = "parse_ip_packet" =>
            /\ calls[i].ret.kind = "return"
            /\ Len(packet) < HeaderOffset + IpHeaderLen => Falsy(calls[i].ret.val)
            /\ (/\ Len(packet) > HeaderOffset
                /\ packet[HeaderOffset + 1] \div 16 # 4) => Falsy(calls[i].ret.val)

\* a buffer one byte short of the header, parsed and rejected
C10_Witness ==
    /\ Len(calls) = 1
    /\ calls[1].fn = "parse_ip_packet"
    /\ Len(packet) = HeaderOffset + IpHeaderLen - 1
    /\ calls[1].ret.kind = "return"
    /\ Falsy(calls[1].ret.val)

\* a complete IPv4 TCP frame, parsed into an event with its ports
ParseAccepts ==
    /\ Len(calls) = 1
    /\ calls[1].fn = "parse_ip_packet"
    /\ calls[1].ret.kind = "return"
    /\ ~Falsy(calls[1].ret.val)
    /\ calls[1].ret.val.dst_port = 80
    /\ calls[1].ret.val.protocol = 6
    /\ calls[1].ret.val.src_ip = IpA

\* the buffer parsed holds a whole IPv4 header of a TCP or UDP packet but
\* ends before the four port bytes at the offset its header length gives
PortsCutOff ==
    /\ Len(packet) >= HeaderOffset + IpHeaderLen
    /\ packet[HeaderOffset + 1] \div 16 = 4
    /\ packet[HeaderOffset + 10] \in {6, 17}
    /\ Len(packet) < HeaderOffset + (packet[HeaderOffset + 1] % 16) * 4 + 4

\* C11: an IPv4 TCP or UDP packet whose buffer ends before the port bytes
\* is rejected by parse_ip_packet, no event record is returned
C11_ShortTransportRejected ==
    \A i \in DOMAIN calls :
        (calls[i].fn = "parse_ip_packet" /\ PortsCutOff) =>
            /\ calls[i].ret.kind = "return"
            /\ Falsy(calls[i].ret.val)

\* what the code returns there: an event record with both ports 0
C11_CodeReturnsPortZeroEvent ==
    \A i \in DOMAIN calls :
        (calls[i].fn = "parse_ip_packet" /\ PortsCutOff) =>
            /\ calls[i].ret.kind = "return"
            /\ ~Falsy(calls[i].ret.val)
            /\ calls[i].ret.val.src_port = 0
            /\ calls[i].ret.val.dst_port = 0

\* ------------------------------------- construction and classification calls

\* `f` without the key k
Without(f, k) == [x \in DOMAIN f \ {k} |-> f[x]]

\* packet records as a caller may hand them over: well formed, with a key
\* missing, empty or None
TestPacketRecords ==
    LET e == Event(IpA, IpB, 40000, 80, 6, 0)
    IN {e, Event(IpB, IpB, 40000, 443, 17, 0), Without(e, "src_ip"),
        Without(e, "dst_port"), Without(e, "protocol"), NoneDict}

Connection(local_ip, local_port, remote_ip, remote_port, protocol, timestamp) ==
    [local_ip |-> local_ip, local_port |-> local_port, remote_ip |-> remote_ip,
     remote_port |-> remote_port, protocol |-> protocol, timestamp |-> timestamp]

TestConnections ==
    LET c == Connection(IpA, 443, IpB, 51000, "TCP", 0)
    IN {c, Connection(IpA, 53, IpB, 51000, "UDP", 0), Without(c, "remote_ip"),
        Without(c, "protocol"), NoneDict}

\* the object before __init__ has run: the fields are not there yet
InitClassifier ==
    /\ ML_AVAILABLE \in BOOLEAN
    /\ fs \in [ModelPaths -> FileStates]
    /\ os_name = "posix"
    /\ app = "unconstructed"
    /\ ml_model = None
    /\ is_monitoring = FALSE
    /\ simulation_mode = TRUE
    /\ sensitivity = 50
    /\ monitoring_mode = "unset"
    /\ socket = None
    /\ packets_analyzed = 0
    /\ threats_detected = 0
    /\ detected_threats_log = << >>
    /\ threat_breakdown = << >>
    /\ recent_packets = << >>
    /\ threads = << >>
    /\ clock = 0
    /\ NoCtor /\ NoGhost /\ NoDashboard /\ NoConfig
    /\ packet_info = NoneDict
    /\ packet = << >>
    /\ calls = << >>

\* WebIDSApp(): line 65, then load_ai_model() at line 81
ConstructApp ==
    /\ app = "unconstructed"
    /\ app' = "constructed"
    /\ ml_model' = load_ai_model(ML_AVAILABLE, fs)
    /\ UNCHANGED << envVars, configVars, dashboard, is_monitoring, simulation_mode, sensitivity,
                    monitoring_mode, socket, packets_analyzed, threats_detected,
                    detected_threats_log, threat_breakdown, recent_packets,
                    threads, clock, ctorVars, callVars, ghostVars >>

\* IntrusionDetector(model_path)
ConstructDetector(model_path) ==
    /\ Falsy(detector)
    /\ detector' = [model_path |-> model_path,
                    ret |-> IntrusionDetectorInit(model_path, fs)]
    /\ UNCHANGED << envVars, configVars, dashboard, appVars, monitor, callVars, ghostVars >>

\* RealTimeIDSMonitor(interface, model_path)
ConstructMonitor(model_path) ==
    /\ Falsy(monitor)
    /\ monitor' = [model_path |-> model_path,
                   ret |-> RealTimeIDSMonitorInit(model_path, fs)]
    /\ UNCHANGED << envVars, configVars, dashboard, appVars, detector, callVars, ghostVars >>

\* the deque has taken in an event (line 535), so that calls are also made
\* on a history that is not empty
HistoryGrows(event) ==
    /\ app = "constructed"
    /\ Len(recent_packets) < 1
    /\ calls = << >>
    /\ recent_packets' = Append(recent_packets, event)
    /\ UNCHANGED << envVars, configVars, dashboard, app, ml_model, is_monitoring, simulation_mode,
                    sensitivity, monitoring_mode, socket, packets_analyzed,
                    threats_detected, detected_threats_log, threat_breakdown,
                    threads, clock, ctorVars, callVars, ghostVars >>

\* app.ai_detect_threats(record)
CallAiDetect(record, prediction) ==
    /\ app = "constructed"
    /\ Len(calls) < 1
    /\ packet_info' = record
    /\ calls' = Append(calls,
           [fn |-> "ai_detect_threats",
            ret |-> ai_detect_threats(ml_model, ML_AVAILABLE, record,
                                      recent_packets, prediction)])
    /\ UNCHANGED << envVars, configVars, dashboard, appVars, ctorVars, packet, ghostVars >>

\* app.detect_threats(record)
CallDetect(record, prediction) ==
    /\ app = "constructed"
    /\ Len(calls) < 1
    /\ packet_info' = record
    /\ LET r == detect_threats(ml_model, ML_AVAILABLE, threat_breakdown, record,
                               recent_packets, prediction)
       IN /\ calls' = Append(calls, [fn |-> "detect_threats", ret |-> r.ret])
          /\ threat_breakdown' = r.threat_breakdown
    /\ UNCHANGED << envVars, configVars, dashboard, app, ml_model, is_monitoring, simulation_mode,
                    sensitivity, monitoring_mode, socket, packets_analyzed,
                    threats_detected, detected_threats_log, recent_packets,
                    threads, clock, ctorVars, packet, ghostVars >>

\* app.analyze_connection_for_threats(connection)
CallAnalyze(connection, prediction) ==
    /\ app = "constructed"
    /\ Len(calls) < 1
    /\ packet_info' = connection
    /\ calls' = Append(calls,
           [fn |-> "analyze_connection_for_threats",
            ret |-> analyze_connection_for_threats(ml_model, ML_AVAILABLE,
                        connection, recent_packets, prediction)])
    /\ UNCHANGED << envVars, configVars, dashboard, appVars, ctorVars, packet, ghostVars >>

NextClassifier ==
    \/ ConstructApp
    \/ \E path \in ModelPaths \cup {None} : ConstructDetector(path)
    \/ \E path \in ModelPaths \cup {None} : ConstructMonitor(path)
    \/ HistoryGrows(Event(IpA, IpB, 40000, 80, 6, 0))
    \/ \E record \in TestPacketRecords, prediction \in Predictions :
          CallAiDetect(record, prediction)
    \/ \E record \in TestPacketRecords, prediction \in Predictions :
          CallDetect(record, prediction)
    \/ \E connection \in TestConnections, prediction \in Predictions :
          CallAnalyze(connection, prediction)

SpecClassifier == InitClassifier /\ [][NextClassifier]_vars

ClassifierCalls ==
    {"ai_detect_threats", "detect_threats", "analyze_connection_for_threats"}

\* C1: on an app whose classifier is disabled, ai_detect_threats,
\* detect_threats and analyze_connection_for_threats return the empty list
\* for every record, the malformed ones included, and never raise
C1_DisabledAnswersNothing ==
    \A i \in DOMAIN calls :
        (calls[i].fn \in ClassifierCalls /\ ml_model = None) =>
            /\ calls[i].ret.kind = "return"
            /\ Falsy(calls[i].ret.val)

\* a disabled app was handed a record without its src_ip and answered []
C1_Witness ==
    /\ ml_model = None
    /\ Len(calls) = 1
    /\ calls[1].fn = "ai_detect_threats"
    /\ ~Falsy(packet_info)
    /\ "src_ip" \notin DOMAIN packet_info
    /\ calls[1].ret.kind = "return"
    /\ Falsy(calls[1].ret.val)

\* the file a constructor call loads
PathLoaded(model_path) == IF model_path = None THEN TunedPath ELSE model_path

\* C2 as claimed: a constructor given a model path that does not exist
\* raises nothing and leaves a disabled classifier, for WebIDSApp,
\* IntrusionDetector and RealTimeIDSMonitor alike
C2_MissingModelDisables ==
    /\ (app = "constructed" /\ fs[QuickPath] = "missing") => ml_model = None
    /\ (~Falsy(detector) /\ fs[PathLoaded(detector.model_path)] = "missing")
          => detector.ret.kind = "return"
    /\ (~Falsy(monitor) /\ fs[PathLoaded(monitor.model_path)] = "missing")
          => monitor.ret.kind = "return"

\* the part of C2 the code keeps: WebIDSApp with its model file missing is
\* constructed with ml_model None
C2_WebAppMissingModelDisables ==
    (app = "constructed" /\ fs[QuickPath] = "missing") => ml_model = None

\* ------------------------------------------------------ the application

\* a deque that never evicts
DequeAppendUnbounded(d, x) == Append(d, x)

\* deque(maxlen=RecentPacketsMaxlen).append(x): a full deque drops its
\* leftmost element
DequeAppend(d, x) ==
    IF Len(d) >= RecentPacketsMaxlen THEN Append(Tail(d), x) ELSE Append(d, x)

\* a monitor thread: where it is in monitoring_loop, and its locals
Thread(pc, info, connections) ==
    [pc |-> pc, packet_info |-> info, connections |-> connections]

ThreadIds == DOMAIN threads

\* thread t moves to pc with these locals
Goto(t, pc, info, connections) ==
    threads' = [threads EXCEPT ![t] = Thread(pc, info, connections)]

\* lines 482-487, in percent
ThreatProbability(s) == IF s >= 80 THEN 15 ELSE IF s >= 50 THEN 8 ELSE 4

\* start_monitoring; raw_ok: try_raw_socket succeeds (lines 284-303), else
\* setup_permission_free_monitoring takes over (lines 305-317)
StartMonitoring(raw_ok) ==
    /\ app = "constructed"
    /\ Len(threads) < MaxThreads
    /\ IF is_monitoring
       THEN UNCHANGED << is_monitoring, socket, monitoring_mode, packets_analyzed,
                         threats_detected, detected_threats_log,
                         threat_breakdown, threads >>
       ELSE /\ IF ~simulation_mode
               THEN IF raw_ok
                    THEN socket' = "open" /\ monitoring_mode' = "raw_socket"
                    ELSE socket' = socket /\ monitoring_mode' = "connection_monitor"
               ELSE UNCHANGED << socket, monitoring_mode >>
            /\ is_monitoring' = TRUE
            /\ packets_analyzed' = 0
            /\ threats_detected' = 0
            /\ detected_threats_log' = << >>
            /\ threat_breakdown' = << >>
            /\ threads' = Append(threads, Thread("start", NoneDict, << >>))
    /\ UNCHANGED << envVars, configVars, dashboard, app, ml_model, simulation_mode, sensitivity,
                    recent_packets, clock, ctorVars, callVars, ghostVars >>

\* stop_monitoring
StopMonitoring ==
    /\ app = "constructed"
    /\ is_monitoring' = FALSE
    /\ socket' = None
    /\ UNCHANGED << envVars, configVars, dashboard, app, ml_model, simulation_mode, sensitivity,
                    monitoring_mode, packets_analyzed, threats_detected,
                    detected_threats_log, threat_breakdown, recent_packets,
                    threads, clock, ctorVars, callVars, ghostVars >>

\* reset_stats
ResetStats ==
    /\ app = "constructed"
    /\ threats_detected' = 0
    /\ packets_analyzed' = 0
    /\ threat_breakdown' = << >>
    /\ UNCHANGED << envVars, configVars, dashboard, app, ml_model, is_monitoring, simulation_mode,
                    sensitivity, monitoring_mode, socket, detected_threats_log,
                    recent_packets, threads, clock, ctorVars, callVars,
                    ghostVars >>

\* IDSRequestHandler.serve_toggle_mode; admin: check_admin_privileges()
ToggleMode(admin) ==
    /\ app = "constructed"
    /\ simulation_mode' =
          IF is_monitoring THEN simulation_mode
          ELSE IF simulation_mode THEN ~admin
          ELSE TRUE
    /\ UNCHANGED << envVars, configVars, dashboard, app, ml_model, is_monitoring, sensitivity,
                    monitoring_mode, socket, packets_analyzed, threats_detected,
                    detected_threats_log, threat_breakdown, recent_packets,
                    threads, clock, ctorVars, callVars, ghostVars >>

\* IDSRequestHandler.handle_config -> update_config({'sensitivity': s})
UpdateConfig(s) ==
    /\ app = "constructed"
    /\ sensitivity' = s
    /\ UNCHANGED << envVars, configVars, dashboard, app, ml_model, is_monitoring, simulation_mode,
                    monitoring_mode, socket, packets_analyzed, threats_detected,
                    detected_threats_log, threat_breakdown, recent_packets,
                    threads, clock, ctorVars, callVars, ghostVars >>

\* monitoring_loop: the dispatch on the mode
LoopStart(t) ==
    /\ threads[t].pc = "start"
    /\ Goto(t, IF simulation_mode THEN "sim_check"
               ELSE IF monitoring_mode = "raw_socket" THEN "real_entry"
               ELSE "conn_check", NoneDict, << >>)
    /\ UNCHANGED << envVars, configVars, dashboard, app, ml_model, is_monitoring, simulation_mode,
                    sensitivity, monitoring_mode, socket, packets_analyzed,
                    threats_detected, detected_threats_log, threat_breakdown,
                    recent_packets, clock, ctorVars, callVars, ghostVars >>

\* line 471 / 526 / 555, and line 523: the loop conditions
LoopCheck(t) ==
    /\ threads[t].pc \in {"sim_check", "real_entry", "real_check", "conn_check"}
    /\ Goto(t, CASE threads[t].pc = "sim_check" ->
                      IF is_monitoring THEN "sim_count" ELSE "done"
                 [] threads[t].pc = "real_entry" ->
                      IF socket = None THEN "done" ELSE "real_check"
                 [] threads[t].pc = "real_check" ->
                      IF is_monitoring /\ socket # None THEN "real_recv" ELSE "done"
                 [] threads[t].pc = "conn_check" ->
                      IF is_monitoring THEN "conn_poll" ELSE "done",
            NoneDict, << >>)
    /\ UNCHANGED << envVars, configVars, dashboard, app, ml_model, is_monitoring, simulation_mode,
                    sensitivity, monitoring_mode, socket, packets_analyzed,
                    threats_detected, detected_threats_log, threat_breakdown,
                    recent_packets, clock, ctorVars, callVars, ghostVars >>

\* lines 473-474: n = random.randint(50, 200)
SimCount(t, n) ==
    /\ threads[t].pc = "sim_count"
    /\ packets_analyzed' = packets_analyzed + n
    /\ clock' = clock + 1
    /\ Goto(t, "sim_threat", NoneDict, << >>)
    /\ UNCHANGED << envVars, configVars, dashboard, app, ml_model, is_monitoring, simulation_mode,
                    sensitivity, monitoring_mode, socket, threats_detected,
                    detected_threats_log, threat_breakdown, recent_packets,
                    ctorVars, callVars, ghostVars >>

\* lines 477-519; hit: random.random() < threat_probability
SimThreat(t, hit, threat_type, source_ip) ==
    /\ threads[t].pc = "sim_threat"
    /\ IF ml_model # None /\ hit /\ ThreatProbability(sensitivity) > 0
       THEN /\ detected_threats_log' =
                  Append(detected_threats_log, Threat(threat_type, source_ip))
            /\ threat_breakdown' = BreakdownInc(threat_breakdown, threat_type)
            /\ threats_detected' = threats_detected + 1
       ELSE UNCHANGED << detected_threats_log, threat_breakdown, threats_detected >>
    /\ Goto(t, "sim_check", NoneDict, << >>)
    /\ UNCHANGED << envVars, configVars, dashboard, app, ml_model, is_monitoring, simulation_mode,
                    sensitivity, monitoring_mode, socket, packets_analyzed,
                    recent_packets, clock, ctorVars, callVars, ghostVars >>

\* lines 529-535 and the except of lines 547-551; buffer: what recvfrom
\* returns; failed: recvfrom raises (it does when the socket is gone)
RealRecv(t, buffer, failed) ==
    /\ threads[t].pc = "real_recv"
    /\ IF socket = None \/ failed
       THEN /\ Goto(t, "done", NoneDict, << >>)
            /\ UNCHANGED << packets_analyzed, recent_packets, clock, processed,
                            packet >>
       ELSE LET info == parse_ip_packet(buffer, os_name, clock + 1).val
            IN /\ packet' = buffer
               /\ packets_analyzed' = packets_analyzed + 1
               /\ clock' = clock + 1
               /\ IF Falsy(info)
                  THEN /\ Goto(t, "real_check", NoneDict, << >>)
                       /\ UNCHANGED << recent_packets, processed >>
                  ELSE /\ recent_packets' = DequeAppend(recent_packets, info)
                       /\ processed' = Append(processed, info)
                       /\ Goto(t, "real_detect", info, << >>)
    /\ UNCHANGED << envVars, configVars, dashboard, app, ml_model, is_monitoring, simulation_mode,
                    sensitivity, monitoring_mode, socket, threats_detected,
                    detected_threats_log, threat_breakdown, ctorVars,
                    packet_info, calls, extraction >>

\* an except block that gives the model up
ModelDroppedOnError(model, error_printed) == IF error_printed THEN None ELSE model

\* self.ml_model after an ai_detect_threats call: lines 268-269 only print
ModelAfterDetect(model, error_printed) == model

\* the extract_packet_features call ai_detect_threats makes at line 245,
\* when it gets that far: the event and the deque handed over, and whether
\* the try block then failed
Extraction(loop, model, available, event, history, error_printed) ==
    IF model = None \/ ~available THEN extraction
    ELSE [loop |-> loop, event |-> event, history |-> history,
          failed |-> error_printed]

\* lines 538-545
RealDetect(t, prediction) ==
    /\ threads[t].pc = "real_detect"
    /\ LET r == detect_threats(ml_model, ML_AVAILABLE, threat_breakdown,
                               threads[t].packet_info, recent_packets, prediction)
       IN /\ threat_breakdown' = r.threat_breakdown
          /\ threats_detected' = threats_detected + Len(r.ret.val)
          /\ detected_threats_log' = detected_threats_log \o r.ret.val
          /\ extraction' = Extraction("real", ml_model, ML_AVAILABLE,
                                      threads[t].packet_info, recent_packets,
                                      r.ret.error_printed)
          /\ ml_model' = ModelAfterDetect(ml_model, r.ret.error_printed)
    /\ Goto(t, "real_check", NoneDict, << >>)
    /\ UNCHANGED << envVars, configVars, dashboard, app, is_monitoring, simulation_mode,
                    sensitivity, monitoring_mode, socket, packets_analyzed,
                    recent_packets, clock, ctorVars, callVars, processed >>

\* line 558: get_network_connections(), the connections found stamped now
ConnPoll(t, connections) ==
    /\ threads[t].pc = "conn_poll"
    /\ clock' = clock + 1
    /\ LET found == [i \in DOMAIN connections |->
                        [connections[i] EXCEPT !.timestamp = clock + 1]]
       IN Goto(t, IF Len(found) = 0 THEN "conn_check" ELSE "conn_count",
               NoneDict, found)
    /\ UNCHANGED << envVars, configVars, dashboard, app, ml_model, is_monitoring, simulation_mode,
                    sensitivity, monitoring_mode, socket, packets_analyzed,
                    threats_detected, detected_threats_log, threat_breakdown,
                    recent_packets, ctorVars, callVars, ghostVars >>

\* line 562
ConnCount(t) ==
    /\ threads[t].pc = "conn_count"
    /\ packets_analyzed' = packets_analyzed + 1
    /\ Goto(t, "conn_analyze", NoneDict, threads[t].connections)
    /\ UNCHANGED << envVars, configVars, dashboard, app, ml_model, is_monitoring, simulation_mode,
                    sensitivity, monitoring_mode, socket, threats_detected,
                    detected_threats_log, threat_breakdown, recent_packets,
                    clock, ctorVars, callVars, ghostVars >>

\* lines 565-579, and the except of lines 581-585
ConnAnalyze(t, prediction) ==
    /\ threads[t].pc = "conn_analyze"
    /\ LET connection == Head(threads[t].connections)
           rest == Tail(threads[t].connections)
           r == analyze_connection_for_threats(ml_model, ML_AVAILABLE, connection,
                                               recent_packets, prediction)
       IN IF r.kind = "raise"
          THEN /\ Goto(t, "done", NoneDict, << >>)
               /\ UNCHANGED << threats_detected, detected_threats_log,
                               threat_breakdown, extraction, ml_model >>
          ELSE /\ threats_detected' = threats_detected + Len(r.val)
               /\ detected_threats_log' = detected_threats_log \o r.val
               /\ threat_breakdown' = BreakdownIncAll(threat_breakdown, r.val)
               /\ extraction' = Extraction("connection", ml_model, ML_AVAILABLE,
                                           ConnectionPacket(connection),
                                           recent_packets, r.error_printed)
               /\ ml_model' = ModelAfterDetect(ml_model, r.error_printed)
               /\ Goto(t, IF Len(rest) = 0 THEN "conn_check" ELSE "conn_count",
                       NoneDict, rest)
    /\ UNCHANGED << envVars, configVars, dashboard, app, is_monitoring, simulation_mode,
                    sensitivity, monitoring_mode, socket, packets_analyzed,
                    recent_packets, clock, ctorVars, callVars, processed >>

\* what the raw socket delivers: a TCP segment to port 80 and an IPv6 frame
LoopFrames ==
    {Frame(EthLen, 4, 5, 6, IpA, IpB, 40000, 80),
     Frame(EthLen, 6, 5, 6, IpA, IpB, 40000, 80)}

\* what a poll of the connection table finds
LoopConnections ==
    {<< >>, << Connection(IpB, 443, IpA, 51000, "TCP", 0) >>}

SimThreatTypes == {"AI-Detected DoS Attack"}

\* the environments the app is constructed in: libraries and model file
\* present, model file missing, libraries missing
Init ==
    /\ \E env \in {<<TRUE, "valid">>, <<TRUE, "missing">>, <<FALSE, "valid">>} :
          /\ ML_AVAILABLE = env[1]
          /\ fs = QuickOnly(env[2])
    /\ os_name = "posix"
    /\ AppConstructed(ML_AVAILABLE, fs, << >>)
    /\ NoCtor /\ NoGhost /\ NoDashboard /\ NoConfig
    /\ packet_info = NoneDict
    /\ packet = << >>
    /\ calls = << >>

Next ==
    \/ \E raw_ok \in BOOLEAN : StartMonitoring(raw_ok)
    \/ StopMonitoring
    \/ ResetStats
    \/ \E admin \in BOOLEAN : ToggleMode(admin)
    \/ \E s \in {50, 80} : UpdateConfig(s)
    \/ \E t \in ThreadIds : LoopStart(t)
    \/ \E t \in ThreadIds : LoopCheck(t)
    \/ \E t \in ThreadIds, n \in {50} : clock < MaxClock /\ SimCount(t, n)
    \/ \E t \in ThreadIds, hit \in BOOLEAN, ty \in SimThreatTypes :
          SimThreat(t, hit, ty, IpB)
    \/ \E t \in ThreadIds, buffer \in LoopFrames, failed \in BOOLEAN :
          (clock < MaxClock \/ failed \/ socket = None) /\ RealRecv(t, buffer, failed)
    \/ \E t \in ThreadIds, prediction \in Predictions : RealDetect(t, prediction)
    \/ \E t \in ThreadIds, connections \in LoopConnections :
          clock < MaxClock /\ ConnPoll(t, connections)
    \/ \E t \in ThreadIds : ConnCount(t)
    \/ \E t \in ThreadIds, prediction \in Predictions : ConnAnalyze(t, prediction)

Spec == Init /\ [][Next]_vars

\* C3: no step of the application (start_monitoring, stop_monitoring,
\* reset_stats, update_config, toggle-mode, a monitoring-loop step, a
\* classification call that succeeds or fails) changes ml_model: a disabled
\* classifier stays disabled and a ready one stays ready
C3_ModelNeverReassigned == [][ml_model' = ml_model]_vars

\* a classification failed inside the model, the classifier is still ready
\* and the raw-socket loop is classifying a later event
C3_Witness ==
    /\ ~Falsy(extraction)
    /\ extraction.failed
    /\ ml_model = "model"
    /\ \E t \in ThreadIds :
          /\ threads[t].pc = "real_detect"
          /\ threads[t].packet_info # extraction.event

\* ------------------------------------------ the packet loop on its own

\* packets the packet loop receives in one behaviour of SpecPipeline
MaxPackets == 3

\* TCP segments of one source to ports 80 and 443, and an IPv6 frame
PipelineFrames ==
    {Frame(EthLen, 4, 5, 6, IpA, IpB, 40000, 80),
     Frame(EthLen, 4, 5, 6, IpA, IpB, 40000, 443),
     Frame(EthLen, 6, 5, 6, IpA, IpB, 40000, 80)}

InitPipeline ==
    /\ ML_AVAILABLE = TRUE /\ fs = QuickOnly("valid")
    /\ os_name = "posix"
    /\ AppConstructed(ML_AVAILABLE, fs, << >>)
    /\ NoCtor /\ NoGhost /\ NoDashboard /\ NoConfig
    /\ packet_info = NoneDict
    /\ packet = << >>
    /\ calls = << >>

\* real mode switched on by an administrator, monitoring started on a raw
\* socket, and the loop left to run
NextPipeline ==
    \/ \E admin \in {TRUE} : ToggleMode(admin)
    \/ \E raw_ok \in {TRUE} : StartMonitoring(raw_ok)
    \/ \E t \in ThreadIds : LoopStart(t)
    \/ \E t \in ThreadIds : LoopCheck(t)
    \/ \E t \in ThreadIds, buffer \in PipelineFrames, failed \in {FALSE} :
          clock < MaxPackets /\ RealRecv(t, buffer, failed)
    \/ \E t \in ThreadIds, prediction \in Predictions : RealDetect(t, prediction)

SpecPipeline == InitPipeline /\ [][NextPipeline]_vars

\* the events the loop parsed before the event at position k
ProcessedBefore(k) == SubSeq(processed, 1, k - 1)

\* C4: the history handed to extract_packet_features for an event of the
\* packet loop holds exactly the events processed before it, in order, and
\* not the event itself
C4_HistoryIsEventsBefore ==
    (~Falsy(extraction) /\ extraction.loop = "real") =>
        \E k \in DOMAIN processed :
            /\ processed[k] = extraction.event
            /\ extraction.history = LastN(ProcessedBefore(k), RecentPacketsMaxlen)
            /\ \A i \in DOMAIN extraction.history :
                  extraction.history[i] # extraction.event

\* the third event of the run 80, 80, 443 of one source has just been
\* handed to the extractor
ScenarioA ==
    /\ ~Falsy(extraction)
    /\ Len(processed) = 3
    /\ extraction.event = processed[3]
    /\ processed[1].dst_port = 80
    /\ processed[2].dst_port = 80
    /\ processed[3].dst_port = 443
    /\ \A i \in 1..3 : processed[i].src_ip = IpA /\ processed[i].protocol = 6

\* C7: for TCP events of one source to ports 80, 80, 443 fed through the
\* packet loop from an empty history, the features of the third event have
\* count = 2 and same_srv_rate = 1/2
C7_ThirdEventCountTwoRateHalf ==
    ScenarioA =>
        LET f == extract_packet_features(extraction.event, extraction.history)
        IN /\ f.kind = "return"
           /\ NumEq(DictGet(f.val, "count"), Num(2))
           /\ NumEq(DictGet(f.val, "same_srv_rate"), <<1, 2>>)

\* what the code computes there: count = 3, same_srv_rate = 1/3
C7_CodeCountsTheEventItself ==
    ScenarioA =>
        LET f == extract_packet_features(extraction.event, extraction.history)
        IN /\ f.kind = "return"
           /\ NumEq(DictGet(f.val, "count"), Num(3))
           /\ NumEq(DictGet(f.val, "same_srv_rate"), <<1, 3>>)

\* ------------------------------------------- the deque at its capacity

FifoFrames == {Frame(EthLen, 4, 5, 6, IpA, IpB, 40000, 80)}

InitFifo ==
    /\ ML_AVAILABLE = TRUE /\ fs = QuickOnly("missing")
    /\ os_name = "posix"
    /\ AppConstructed(ML_AVAILABLE, fs, << >>)
    /\ NoCtor /\ NoGhost /\ NoDashboard /\ NoConfig
    /\ packet_info = NoneDict
    /\ packet = << >>
    /\ calls = << >>

\* the packet loop receiving MaxOverflow packets more than the deque holds
NextFifo ==
    \/ \E admin \in {TRUE} : ToggleMode(admin)
    \/ \E raw_ok \in {TRUE} : StartMonitoring(raw_ok)
    \/ \E t \in ThreadIds : LoopStart(t)
    \/ \E t \in ThreadIds : LoopCheck(t)
    \/ \E t \in ThreadIds, buffer \in FifoFrames, failed \in {FALSE} :
          /\ clock < RecentPacketsMaxlen + MaxOverflow
          /\ RealRecv(t, buffer, failed)
    \/ \E t \in ThreadIds, prediction \in {Ret("normal")} :
          RealDetect(t, prediction)

SpecFifo == InitFifo /\ [][NextFifo]_vars

\* C5: recent_packets never holds more than RecentPacketsMaxlen events; it
\* is always the most recent RecentPacketsMaxlen of the events appended, in
\* the order they were appended: an append to a full deque drops the event
\* at index 0 and nothing else
C5_HistoryIsBoundedFifo ==
    /\ Len(recent_packets) <= RecentPacketsMaxlen
    /\ recent_packets = LastN(processed, RecentPacketsMaxlen)

\* a full deque received one more event: the oldest event is gone
C5_Witness ==
    /\ Len(processed) = RecentPacketsMaxlen + 1
    /\ Len(recent_packets) = RecentPacketsMaxlen
    /\ recent_packets[1] = processed[2]
    /\ \A i \in DOMAIN recent_packets : recent_packets[i] # processed[1]

\* ------------------------------------- RealTimeIDSMonitor: the features

\* a captured scapy packet: the layers it has, the addresses of its IP
\* layer, the destination port and flags of its TCP / UDP layer, len(packet)
ScapyPacket(seq, layers, src, dst, dport, flags, length) ==
    [seq |-> seq, layers |-> layers, src |-> src, dst |-> dst,
     dport |-> dport, flags |-> flags, len |-> length]

\* NetworkFeatureExtractor._create_service_map: the dict display as written,
\* a key written twice keeps its last value
MonitorServicePairs ==
    << <<20, "ftp_data">>, <<21, "ftp">>, <<22, "ssh">>, <<23, "telnet">>,
       <<25, "smtp">>, <<53, "domain">>, <<80, "http">>, <<110, "pop_3">>,
       <<143, "imap4">>, <<443, "https">>, <<993, "imaps">>, <<995, "pop_3s">>,
       <<22, "ssh">>, <<161, "snmp">>, <<443, "ssl">>, <<993, "imap4">>,
       <<135, "loc-srv">>, <<139, "netbios-ssn">>, <<445, "microsoft-ds">>,
       <<1433, "ms-sql-s">>, <<3389, "ms-wbt-server">> >>

\* pairs.get(k, default) on a dict display
PairsGet(pairs, k, default) ==
    LET hits == {i \in DOMAIN pairs : pairs[i][1] = k}
    IN IF hits = {} THEN default
       ELSE pairs[CHOOSE i \in hits : \A j \in hits : j <= i][2]

\* flags & mask # 0, mask a power of two
HasBit(flags, mask) == (flags \div mask) % 2 = 1

_get_protocol_type(pkt) ==
    IF "TCP" \in pkt.layers THEN "tcp"
    ELSE IF "UDP" \in pkt.layers THEN "udp"
    ELSE IF "ICMP" \in pkt.layers THEN "icmp"
    ELSE "other"

_get_service(pkt) ==
    IF "TCP" \in pkt.layers \/ "UDP" \in pkt.layers
    THEN PairsGet(MonitorServicePairs, pkt.dport, "other")
    ELSE "other"

_get_flag(pkt) ==
    IF "TCP" \in pkt.layers
    THEN IF HasBit(pkt.flags, 2)
         THEN (IF ~HasBit(pkt.flags, 16) THEN "S0" ELSE "S1")
         ELSE IF HasBit(pkt.flags, 1) THEN "SF"
         ELSE IF HasBit(pkt.flags, 4) THEN "REJ"
         ELSE "SF"
    ELSE "OTH"

_get_urgent_count(pkt) ==
    IF "TCP" \in pkt.layers /\ HasBit(pkt.flags, 32) THEN 1 ELSE 0

\* lines 108-121: traffic_features
TrafficFeatures ==
    << <<"hot", Num(0)>>, <<"num_failed_logins", Num(0)>>, <<"logged_in", Num(0)>>,
       <<"num_compromised", Num(0)>>, <<"root_shell", Num(0)>>,
       <<"su_attempted", Num(0)>>, <<"num_root", Num(0)>>,
       <<"num_file_creations", Num(0)>>, <<"num_shells", Num(0)>>,
       <<"num_access_files", Num(0)>>, <<"num_outbound_cmds", Num(0)>>,
       <<"is_host_login", Num(0)>>, <<"is_guest_login", Num(0)>>,
       <<"count", Num(1)>>, <<"srv_count", Num(1)>>,
       <<"serror_rate", Num(0)>>, <<"srv_serror_rate", Num(0)>>,
       <<"rerror_rate", Num(0)>>, <<"srv_rerror_rate", Num(0)>>,
       <<"same_srv_rate", Num(1)>>, <<"diff_srv_rate", Num(0)>>,
       <<"srv_diff_host_rate", Num(0)>>, <<"dst_host_count", Num(1)>>,
       <<"dst_host_srv_count", Num(1)>>, <<"dst_host_same_srv_rate", Num(1)>>,
       <<"dst_host_diff_srv_rate", Num(0)>>,
       <<"dst_host_same_src_port_rate", Num(0)>>,
       <<"dst_host_srv_diff_host_rate", Num(0)>>,
       <<"dst_host_serror_rate", Num(0)>>, <<"dst_host_srv_serror_rate", Num(0)>>,
       <<"dst_host_rerror_rate", Num(0)>>, <<"dst_host_srv_rerror_rate", Num(0)>> >>

\* NetworkFeatureExtractor.extract_features: None for a packet without an
\* IP layer, else the features dict
extract_features(pkt) ==
    IF "IP" \notin pkt.layers THEN NoneDict
    ELSE DictSetAll(
           << <<"src_ip", pkt.src>>,
              <<"dst_ip", pkt.dst>>,
              <<"protocol_type", _get_protocol_type(pkt)>>,
              <<"duration", Num(0)>>,
              <<"service", _get_service(pkt)>>,
              <<"flag", _get_flag(pkt)>>,
              <<"src_bytes", Num(pkt.len)>>,
              <<"dst_bytes", Num(0)>>,
              <<"land", Num(IF pkt.src = pkt.dst THEN 1 ELSE 0)>>,
              <<"wrong_fragment", Num(0)>>,
              <<"urgent", Num(_get_urgent_count(pkt))>> >>,
           TrafficFeatures)

\* lines 271-285: feature_order
feature_order ==
    << "duration", "protocol_type", "service", "flag", "src_bytes",
       "dst_bytes", "land", "wrong_fragment", "urgent", "hot",
       "num_failed_logins", "logged_in", "num_compromised",
       "root_shell", "su_attempted", "num_root", "num_file_creations",
       "num_shells", "num_access_files", "num_outbound_cmds",
       "is_host_login", "is_guest_login", "count", "srv_count",
       "serror_rate", "srv_serror_rate", "rerror_rate",
       "srv_rerror_rate", "same_srv_rate", "diff_srv_rate",
       "srv_diff_host_rate", "dst_host_count", "dst_host_srv_count",
       "dst_host_same_srv_rate", "dst_host_diff_srv_rate",
       "dst_host_same_src_port_rate", "dst_host_srv_diff_host_rate",
       "dst_host_serror_rate", "dst_host_srv_serror_rate",
       "dst_host_rerror_rate", "dst_host_srv_rerror_rate" >>

\* lines 295, 299, 303: the categorical maps of _prepare_features_for_model
MonitorProtocolMap ==
    << <<"tcp", 0>>, <<"udp", 1>>, <<"icmp", 2>>, <<"other", 3>> >>

MonitorServiceMap ==
    << <<"http", 1>>, <<"https", 2>>, <<"ftp", 3>>, <<"ssh", 4>>, <<"other", 0>> >>

MonitorFlagMap ==
    << <<"SF", 0>>, <<"S0", 1>>, <<"REJ", 2>>, <<"RSTR", 3>>, <<"OTH", 4>> >>

\* _prepare_features_for_model: the row given to predict_single, the
\* categorical fields turned into their codes
_prepare_features_for_model(features) ==
    [i \in DOMAIN feature_order |->
        LET feature_name == feature_order[i]
        IN IF feature_name = "protocol_type"
           THEN Num(PairsGet(MonitorProtocolMap,
                             IF DictHas(features, feature_name)
                             THEN DictGet(features, feature_name) ELSE "0", 3))
           ELSE IF feature_name = "service"
           THEN Num(PairsGet(MonitorServiceMap,
                             IF DictHas(features, feature_name)
                             THEN DictGet(features, feature_name) ELSE "0", 0))
           ELSE IF feature_name = "flag"
           THEN Num(PairsGet(MonitorFlagMap,
                             IF DictHas(features, feature_name)
                             THEN DictGet(features, feature_name) ELSE "0", 4))
           ELSE IF DictHas(features, feature_name)
                THEN DictGet(features, feature_name) ELSE Num(0)]

\* ------------------------------------- RealTimeIDSMonitor: the operations

\* x > y
NumGt(x, y) == x[1] * y[2] > y[1] * x[2]

\* deque(maxlen=maxlen).append(x)
DequeAppendMax(d, x, maxlen) ==
    IF Len(d) >= maxlen THEN Append(Tail(d), x) ELSE Append(d, x)

\* IntrusionDetector.predict: the labels of model.predict and, when the
\* model has predict_proba, the largest class probability; None otherwise
ModelAnswer(label, probability) ==
    Ret([predictions |-> label, probabilities |-> probability])

ModelAnswers ==
    {ModelAnswer("normal", <<9, 10>>), ModelAnswer("neptune", <<9, 10>>),
     ModelAnswer("neptune", <<8, 10>>), ModelAnswer("neptune", NoneDict),
     Raise("ValueError")}

\* IntrusionDetector.predict_single
predict_single(answer) ==
    IF answer.kind = "raise" THEN answer
    ELSE Ret([prediction |-> answer.val.predictions,
              is_attack |-> answer.val.predictions # "normal",
              confidence |-> answer.val.probabilities])

\* line 255: result['is_attack'] and result['confidence'] > alert_threshold;
\* None > float raises TypeError
IsThreat(result, alert_threshold) ==
    IF ~result.is_attack THEN Ret(FALSE)
    ELSE IF Falsy(result.confidence) THEN Raise("TypeError")
    ELSE Ret(NumGt(result.confidence, alert_threshold))

\* self.rate_limit[src_ip]: a defaultdict of deques
RateLimitOf(self, src_ip) ==
    IF DictHas(self.rate_limit, src_ip) THEN DictGet(self.rate_limit, src_ip)
    ELSE << >>

\* a limiter that lets every alert through
RateNeverLimited(times, now) == FALSE

\* lines 324-325: more than 5 of the times kept for the address lie in the
\* last minute
RateLimited(times, now) ==
    Len(SelectSeq(times, LAMBDA t : now - t < RateWindow)) > RateMax

\* _handle_threat_detection at time now; saved: the open / write of
\* _save_alert succeeded
_handle_threat_detection(self, features, result, now, saved) ==
    LET src_ip == DictGet(features, "src_ip")
        times == DequeAppendMax(RateLimitOf(self, src_ip), now, RateLimitMaxlen)
        counted == [self EXCEPT !.threats_detected = @ + 1,
                                !.rate_limit = DictSet(@, src_ip, times),
                                !.now = now]
        alert == [timestamp |-> now,
                  source_ip |-> src_ip,
                  destination_ip |-> DictGet(features, "dst_ip"),
                  attack_type |-> result.prediction,
                  confidence |-> result.confidence,
                  protocol |-> DictGet(features, "protocol_type"),
                  service |-> DictGet(features, "service"),
                  packet_size |-> DictGet(features, "src_bytes")]
    IN IF RateLimited(times, now) THEN counted
       ELSE [counted EXCEPT
                !.recent_alerts = DequeAppendMax(@, alert, RecentAlertsMaxlen),
                !.alert_file = IF saved THEN Append(@, alert) ELSE @]

\* a loop that never looks at the flag
WhileRunningForever(self) == TRUE

\* line 233: while self.is_running
WhileRunning(self) == self.is_running

\* a queue that hands out its newest packet
QueueGetLast(q) == [packet |-> q[Len(q)], rest |-> SubSeq(q, 1, Len(q) - 1)]

\* queue.Queue.get(): the oldest packet leaves the queue
QueueGet(q) == [packet |-> Head(q), rest |-> Tail(q)]

\* one pass of the body of process_packets after the get (lines 238-265)
\* for the packet the thread holds: the object afterwards and what became
\* of the packet
ProcessOne(self, pkt, answer, now, saved) ==
    LET features == extract_features(pkt)
        result == predict_single(answer)
        counted == [self EXCEPT !.packets_processed = @ + 1]
    IN IF Falsy(features) THEN [self |-> self, outcome |-> "skipped"]
       ELSE IF result.kind = "raise" THEN [self |-> self, outcome |-> "error"]
       ELSE LET threat == IsThreat(result.val, self.alert_threshold)
            IN IF threat.kind = "raise"
               THEN [self |-> counted, outcome |-> "error"]
               ELSE IF threat.val
               THEN [self |-> _handle_threat_detection(counted, features,
                                  result.val, now, saved),
                     outcome |-> "threat"]
               ELSE [self |-> counted, outcome |-> "classified"]

\* the packets the capture delivers, numbered in the order of delivery
ScapyPackets(seq) ==
    {ScapyPacket(seq, {"Ether", "IP", "TCP"}, IpA, IpB, 80, 2, 60),
     ScapyPacket(seq, {"Ether", "ARP"}, IpA, IpB, 0, 0, 42)}

MonitorUnchanged ==
    UNCHANGED << envVars, configVars, dashboard, appVars, detector, packet_info, packet, ghostVars >>

\* the object of the constructed monitor and the object after a step
Self == monitor.ret.val

MonitorBecomes(self, entries) ==
    /\ monitor' = [monitor EXCEPT !.ret.val = self]
    /\ calls' = calls \o entries
    /\ MonitorUnchanged

Delivered == Cardinality({i \in DOMAIN calls : calls[i].fn = "packet_handler"})

Stops == Cardinality({i \in DOMAIN calls : calls[i].fn = "stop_monitoring"})

\* start_monitoring up to the call of scapy.sniff (lines 376-388)
MonitorStart ==
    /\ ~Self.started
    /\ MonitorBecomes([Self EXCEPT !.is_running = TRUE, !.started = TRUE,
                                   !.sniffing = TRUE,
                                   !.processing_thread = Worker("check", NoneDict)],
                      << [fn |-> "start_monitoring"] >>)

\* packet_handler, called by the capture for one packet
MonitorPacketHandler(pkt) ==
    /\ Self.sniffing
    /\ Delivered < MaxArrivals
    /\ IF Len(Self.packet_queue) < QueueMaxsize
       THEN MonitorBecomes([Self EXCEPT !.packet_queue = Append(@, pkt)],
                           << [fn |-> "packet_handler", seq |-> pkt.seq,
                               queued |-> TRUE] >>)
       ELSE MonitorBecomes(Self, << [fn |-> "packet_handler", seq |-> pkt.seq,
                                     queued |-> FALSE] >>)

\* stop_monitoring: from the finally of start_monitoring when the capture
\* ends, and from IntegratedIDS.stop
MonitorStop ==
    /\ Self.started
    /\ Stops < MaxStops
    /\ MonitorBecomes([Self EXCEPT !.is_running = FALSE, !.sniffing = FALSE],
                      << [fn |-> "stop_monitoring"] >>)

\* a loop that a skipped packet or an exception ends
LoopEnds == "done"

\* lines 241, 246, 263 and 264-265: continue, and an except block inside
\* the loop: the thread goes back to the loop condition
LoopAgain == "check"

\* process_packets, the loop condition
MonitorCheck ==
    /\ Self.processing_thread.pc = "check"
    /\ MonitorBecomes([Self EXCEPT !.processing_thread =
                          Worker(IF WhileRunning(Self) THEN "get" ELSE "done",
                                 NoneDict)],
                      << >>)

\* process_packets, line 236: a packet is taken, or queue.Empty after the
\* timeout
MonitorGet ==
    /\ Self.processing_thread.pc = "get"
    /\ IF Self.packet_queue = << >>
       THEN MonitorBecomes([Self EXCEPT !.processing_thread =
                               Worker(LoopAgain, NoneDict)], << >>)
       ELSE LET got == QueueGet(Self.packet_queue)
            IN MonitorBecomes(
                   [Self EXCEPT !.packet_queue = got.rest,
                                !.processing_thread = Worker("classify", got.packet)],
                   << [fn |-> "get", seq |-> got.packet.seq] >>)

\* process_packets, lines 238-265 for the packet taken
MonitorClassify(answer, now, saved) ==
    /\ Self.processing_thread.pc = "classify"
    /\ LET pkt == Self.processing_thread.packet
           one == ProcessOne(Self, pkt, answer, now, saved)
       IN MonitorBecomes([one.self EXCEPT !.processing_thread =
                              Worker(LoopAgain, NoneDict)],
                         << [fn |-> "processed", seq |-> pkt.seq,
                             outcome |-> one.outcome] >>)

\* the monitor main() builds, before start_monitoring
InitMonitor ==
    /\ ML_AVAILABLE = TRUE
    /\ fs = [path \in ModelPaths |-> "valid"]
    /\ os_name = "posix"
    /\ app = "unconstructed"
    /\ ml_model = None
    /\ is_monitoring = FALSE
    /\ simulation_mode = TRUE
    /\ sensitivity = 50
    /\ monitoring_mode = "unset"
    /\ socket = None
    /\ packets_analyzed = 0
    /\ threats_detected = 0
    /\ detected_threats_log = << >>
    /\ threat_breakdown = << >>
    /\ recent_packets = << >>
    /\ threads = << >>
    /\ clock = 0
    /\ detector = NoneDict
    /\ NoGhost /\ NoDashboard /\ NoConfig
    /\ monitor = [model_path |-> None, ret |-> RealTimeIDSMonitorInit(None, fs)]
    /\ packet_info = NoneDict
    /\ packet = << >>
    /\ calls = << >>

WorkerStep ==
    \/ MonitorCheck
    \/ MonitorGet
    \/ \E answer \in ModelAnswers, saved \in BOOLEAN :
          \E now \in {Self.now, Self.now + RateWindow} :
             MonitorClassify(answer, now, saved)

NextMonitor ==
    \/ MonitorStart
    \/ \E pkt \in ScapyPackets(Delivered + 1) : MonitorPacketHandler(pkt)
    \/ MonitorStop
    \/ WorkerStep

SpecMonitor == InitMonitor /\ [][NextMonitor]_vars

\* the processing thread is scheduled: a thread that can take a step takes
\* one (queue.get returns after at most its timeout)
SpecMonitorFair == SpecMonitor /\ WF_vars(WorkerStep)

\* the packets the worker took from the queue after the first stop_monitoring
GetsAfterStop ==
    {i \in DOMAIN calls :
        /\ calls[i].fn = "get"
        /\ \E j \in 1..(i - 1) : calls[j].fn = "stop_monitoring"}

\* every packet the worker took has been through lines 238-265
AllTakenProcessed ==
    \A i \in DOMAIN calls :
        calls[i].fn = "get" =>
            \E j \in (i + 1)..Len(calls) :
                calls[j].fn = "processed" /\ calls[j].seq = calls[i].seq

C14_ClassifiedInArrivalOrder ==
    \A i, j \in DOMAIN calls :
        (i < j /\ calls[i].fn = "get" /\ calls[j].fn = "get") =>
            /\ calls[i].seq < calls[j].seq
            /\ \E k \in (i + 1)..(j - 1) :
                  calls[k].fn = "processed" /\ calls[k].seq = calls[i].seq

\* two packets waited in the queue together and both have been processed
C14_Witness ==
    \E i, j, k \in DOMAIN calls :
        /\ i < j /\ j < k
        /\ calls[i].fn = "packet_handler" /\ calls[i].queued
        /\ calls[j].fn = "packet_handler" /\ calls[j].queued
        /\ calls[k].fn = "get" /\ calls[k].seq = calls[i].seq
        /\ \E l \in DOMAIN calls :
              calls[l].fn = "processed" /\ calls[l].seq = calls[j].seq

\* ------------------------------------- both ingestion loops

\* either program: the web application with its packet loop, or the monitor
InitIngest == InitPipeline \/ InitMonitor

NextIngest ==
    \/ app = "constructed" /\ NextPipeline
    \/ ~Falsy(monitor) /\ NextMonitor

SpecIngest == InitIngest /\ [][NextIngest]_vars

\* thread t of the application has received a buffer in this step, and
\* parse_ip_packet rejects it
ReceivedRejected(t) ==
    /\ threads[t].pc = "real_recv"
    /\ packets_analyzed' = packets_analyzed + 1
    /\ Falsy(parse_ip_packet(packet', os_name, clock').val)

\* the processing thread of the monitor has been through lines 238-265 in
\* this step with a packet extract_features gives no features for
ProcessedUnusable ==
    /\ ~Falsy(monitor)
    /\ Self.processing_thread.pc = "classify"
    /\ Len(calls') = Len(calls) + 1
    /\ calls'[Len(calls')].fn = "processed"
    /\ Falsy(extract_features(Self.processing_thread.packet))

\* C15: an observation that cannot be ingested is dropped and the loop goes
\* on: a buffer parse_ip_packet rejects is not appended to recent_packets
\* and adds no threat, a packet without features leaves the counters and
\* alerts of the monitor as they were, and in both loops the worker goes
\* back to its loop condition instead of ending.
C15_UnusableDroppedLoopGoesOn ==
    [][/\ \A t \in DOMAIN threads :
             ReceivedRejected(t) =>
                 /\ recent_packets' = recent_packets
                 /\ threats_detected' = threats_detected
                 /\ detected_threats_log' = detected_threats_log
                 /\ threat_breakdown' = threat_breakdown
                 /\ threads'[t].pc = "real_check"
       /\ ProcessedUnusable =>
             /\ monitor'.ret.val.packets_processed = Self.packets_processed
             /\ monitor'.ret.val.threats_detected = Self.threats_detected
             /\ monitor'.ret.val.recent_alerts = Self.recent_alerts
             /\ monitor'.ret.val.alert_file = Self.alert_file
             /\ monitor'.ret.val.processing_thread.pc = "check"]_vars

\* the packet loop received a rejected buffer and then parsed another one,
\* or the monitor skipped a packet and then took another one
C15_Witness ==
    \/ /\ app = "constructed"
       /\ packets_analyzed = Len(processed) + 1
       /\ packet # << >>
       /\ ~Falsy(parse_ip_packet(packet, os_name, clock).val)
       /\ Len(processed) >= 1
       /\ processed[Len(processed)].timestamp = clock
       /\ Len(recent_packets) = Len(processed)
    \/ /\ ~Falsy(monitor)
       /\ \E i, j \in DOMAIN calls :
             /\ i < j
             /\ calls[i].fn = "processed" /\ calls[i].outcome = "skipped"
             /\ calls[j].fn = "processed" /\ calls[j].outcome # "skipped"

\* the monitor threads that are inside one of the monitoring loops
ActiveWorkers == {t \in DOMAIN threads : threads[t].pc \notin {"start", "done"}}

\* C13: for one WebIDSApp at most one monitoring-loop worker is active at
\* any time, whatever start_monitoring and stop_monitoring calls are made.
C13_AtMostOneWorker == Cardinality(ActiveWorkers) <= 1

\* what the code does guarantee: a start_monitoring call spawns a thread
\* only when is_monitoring was false
C13_StartSpawnsOnlyWhenStopped ==
    [][Len(threads') > Len(threads) => ~is_monitoring /\ is_monitoring']_vars

\* ------------------------------------- get_stats

\* a report that always shows a model
GetStatsModelAlwaysShown ==
    [is_monitoring |-> is_monitoring,
     packets_analyzed |-> packets_analyzed,
     threats_detected |-> threats_detected,
     sensitivity |-> sensitivity,
     simulation_mode |-> simulation_mode,
     ai_model_loaded |-> TRUE,
     recent_threats |-> LastN(detected_threats_log, 5),
     threat_breakdown |-> threat_breakdown]

\* get_stats (uptime, which reads the wall clock, is left out)
get_stats ==
    [is_monitoring |-> is_monitoring,
     packets_analyzed |-> packets_analyzed,
     threats_detected |-> threats_detected,
     sensitivity |-> sensitivity,
     simulation_mode |-> simulation_mode,
     ai_model_loaded |-> ml_model # None,
     recent_threats |-> LastN(detected_threats_log, 5),
     threat_breakdown |-> threat_breakdown]

\* load_ai_model found the libraries and a model file joblib could load
ModelLoaded == ML_AVAILABLE /\ fs[QuickPath] = "valid"

\* C16: with the classifier disabled get_stats reports ai_model_loaded =
\* false and no threat is ever recorded (threats_detected = 0, the log and
\* the breakdown empty) in whatever mode the loops run; ai_model_loaded is
\* true exactly when a model was loaded.
C16_DisabledReportsNoModelNoThreats ==
    /\ get_stats.ai_model_loaded <=> ModelLoaded
    /\ ~ModelLoaded =>
          /\ ~get_stats.ai_model_loaded
          /\ get_stats.threats_detected = 0
          /\ get_stats.recent_threats = << >>
          /\ detected_threats_log = << >>
          /\ Falsy(get_stats.threat_breakdown)

\* a disabled application with a thread at one of pcs after work was counted
DisabledAfterWork(pcs) ==
    /\ ~ModelLoaded
    /\ packets_analyzed > 0
    /\ \E t \in DOMAIN threads : threads[t].pc \in pcs

\* the packet loop of a disabled application has parsed an event and been
\* through detect_threats with it
C16_Witness ==
    /\ DisabledAfterWork({"real_check"})
    /\ Len(recent_packets) >= 1

C16_WitnessSimulation == DisabledAfterWork({"sim_check"})

C16_WitnessConnections ==
    DisabledAfterWork({"conn_check"}) /\ monitoring_mode = "connection_monitor"

\* C17: every event whose features were extracted is in the rolling history
\* once the loop has finished with it, whether it came from the packet loop
\* or from a connection tuple of the connection-monitor loop.
C17_ExtractedEventsEnterHistory ==
    ~Falsy(extraction) =>
        \E i \in DOMAIN recent_packets : recent_packets[i] = extraction.event

\* what the code does: only the packet loop, at line 535, ever appends to
\* recent_packets, and it does so before the extraction
C17_OnlyPacketLoopAppends ==
    [][recent_packets' # recent_packets =>
          \E t \in DOMAIN threads :
              threads[t].pc = "real_recv" /\ threads'[t].pc = "real_detect"]_vars

\* ------------------------------------- the encoders and the two schemas

\* protocol numbers of the IP header: ICMP, TCP, UDP and others
EncoderProtocols == {0, 1, 2, 6, 17, 47, 50, 255}

\* the ports of the two service tables, and ports of neither
EncoderPorts ==
    DictKeySet(service_map) \cup DictKeySet(MonitorServicePairs)
        \cup {0, 8080, 65535}

\* the packet scapy hands the monitor for an event the application parses:
\* the same addresses, transport protocol and destination port
ScapyPacketOf(event) ==
    ScapyPacket(1,
                {"Ether", "IP"} \cup
                    (CASE event.protocol = 6 -> {"TCP"}
                       [] event.protocol = 17 -> {"UDP"}
                       [] event.protocol = 1 -> {"ICMP"}
                       [] OTHER -> {}),
                event.src_ip, event.dst_ip, event.dst_port, 0, 60)

InitEncoders ==
    /\ ML_AVAILABLE = TRUE /\ fs = QuickOnly("valid") /\ os_name = "posix"
    /\ AppConstructed(ML_AVAILABLE, fs, << >>)
    /\ NoCtor /\ NoGhost /\ NoDashboard /\ NoConfig
    /\ packet_info \in {Event(IpA, IpB, 40000, port, protocol, 0) :
                           port \in EncoderPorts, protocol \in EncoderProtocols}
    /\ packet = << >>
    /\ calls = << >>

\* the encoders called on the event, and the rows the two pipelines give
\* their model for it
EncodersCall ==
    /\ Len(calls) < 1
    /\ calls' = Append(calls,
          [fn |-> "encode",
           protocol_type |-> encode_protocol(packet_info.protocol),
           service |-> encode_service(packet_info.dst_port),
           web |-> ModelInput(
                       extract_packet_features(packet_info, recent_packets).val),
           monitor |-> _prepare_features_for_model(
                           extract_features(ScapyPacketOf(packet_info)))])
    /\ UNCHANGED << envVars, configVars, dashboard, appVars, ctorVars, packet_info, packet, ghostVars >>

NextEncoders == EncodersCall

SpecEncoders == InitEncoders /\ [][NextEncoders]_vars

\* C18: the two pipelines emit the 41 fields in the same order and, for the
\* same transport protocol and destination port, the same protocol code and
\* service code at the protocol_type and service positions.
C18_OneSchema ==
    /\ feature_order = ai_feature_columns
    /\ \A i \in DOMAIN calls :
          \A k \in DOMAIN feature_order :
              feature_order[k] \in {"protocol_type", "service"} =>
                  NumEq(calls[i].web[k], calls[i].monitor[k])

\* what does hold: the order of the 41 names is the same
C18_SameOrder == feature_order = ai_feature_columns

\* a TCP event to port 80: 2 and 6 in the application's row, 0 and 1 in the
\* monitor's
C18_TcpHttpCodesDiffer ==
    \A i \in DOMAIN calls :
        (packet_info.protocol = 6 /\ packet_info.dst_port = 80) =>
            /\ calls[i].web[2] = Num(2) /\ calls[i].web[3] = Num(6)
            /\ calls[i].monitor[2] = Num(0) /\ calls[i].monitor[3] = Num(1)

\* C20: encode_protocol gives ICMP, TCP and UDP three distinct codes other
\* than 0 and every other protocol number 0; encode_service gives every
\* port of its table a distinct code other than 0 and every other port 0.
C20_EncodersTotal ==
    /\ \A i \in DOMAIN calls :
          /\ calls[i].protocol_type \in Nat
          /\ calls[i].service \in Nat
          /\ calls[i].protocol_type # 0 <=> packet_info.protocol \in {1, 6, 17}
          /\ calls[i].service # 0 <=> packet_info.dst_port \in DictKeySet(service_map)
    /\ \A p, q \in {1, 6, 17} :
          p # q => encode_protocol(p) # encode_protocol(q)
    /\ \A p, q \in DictKeySet(service_map) :
          p # q => encode_service(p) # encode_service(q)

\* the encoders have answered for a UDP event to a port outside the table
C20_Witness ==
    /\ calls # << >>
    /\ packet_info.protocol = 17
    /\ packet_info.dst_port = 8080
    /\ calls[1].protocol_type = 3
    /\ calls[1].service = 0

\* ------------------------------------------------------------- IDSConfig

\* the keys of DEFAULT_CONFIG, in the order of the dict display
Sections == << "network", "detection", "alerts", "logging", "monitoring" >>

\* lines 13-48: the section dicts of DEFAULT_CONFIG as the class body
\* builds them
DefaultSection(section) ==
    CASE section = "network" ->
            [interface |-> "auto", promiscuous_mode |-> FALSE, buffer_size |-> 1000]
      [] section = "detection" ->
            [model_path |-> TunedPath, confidence_threshold |-> <<8, 10>>,
             rate_limit_window |-> 60, rate_limit_max |-> 5]
      [] section = "alerts" ->
            [log_file |-> "security_alerts.json", enable_email |-> FALSE,
             email_smtp |-> "smtp.gmail.com", email_port |-> 587,
             email_user |-> "", email_password |-> "",
             email_recipients |-> << >>, enable_webhook |-> FALSE,
             webhook_url |-> ""]
      [] section = "logging" ->
            [level |-> "INFO", file |-> "intrusion_detection.log",
             max_size_mb |-> 10, backup_count |-> 5]
      [] section = "monitoring" ->
            [enable_web_dashboard |-> TRUE, dashboard_port |-> 8080,
             dashboard_host |-> "127.0.0.1", stats_update_interval |-> 5]

\* the class attribute: each key bound to its section dict, an object of
\* config_heap
DEFAULT_CONFIG == [section \in SeqToSet(Sections) |->
                      CHOOSE i \in DOMAIN Sections : Sections[i] = section]

\* a file on disk
NoFile == [state |-> "missing"]

CorruptFile == [state |-> "corrupt"]

YamlFile(content) == [state |-> "yaml", content |-> content]

\* yaml.dump(config): the values of the dicts, written out
Dumped(heap, config) == [section \in DOMAIN config |-> heap[config[section]]]

\* d.copy() followed by d[k] = v for the items of user, on a section dict
MergeSection(default, user) ==
    [k \in DOMAIN default \cup DOMAIN user |->
        IF k \in DOMAIN user THEN user[k] ELSE default[k]]

\* DEFAULT_CONFIG.copy(): a new top-level dict bound to the same section
\* dicts
CopyDefaults(heap) == [heap |-> heap, config |-> DEFAULT_CONFIG]

\* _merge_configs(DEFAULT_CONFIG, user): a section of the file gets a new
\* dict, merged from the default one; the others stay bound to the section
\* dicts of DEFAULT_CONFIG
_merge_configs(heap, user) ==
    LET given == SelectSeq(Sections, LAMBDA section : section \in DOMAIN user)
        Place(section) == CHOOSE n \in DOMAIN given : given[n] = section
    IN [heap |-> heap \o [n \in DOMAIN given |->
                    MergeSection(heap[DEFAULT_CONFIG[given[n]]], user[given[n]])],
        config |-> [section \in DOMAIN DEFAULT_CONFIG |->
                       IF section \in DOMAIN user
                       THEN Len(heap) + Place(section)
                       ELSE DEFAULT_CONFIG[section]]]

\* _load_config; writable: save_config can write the file.  The object
\* graph and the disk afterwards.
_load_config(heap, files, config_file, writable) ==
    LET file == files[config_file]
    IN IF file.state = "yaml"
       THEN [loaded |-> _merge_configs(heap, file.content), files |-> files]
       ELSE IF file.state = "corrupt"
       THEN [loaded |-> CopyDefaults(heap), files |-> files]
       ELSE [loaded |-> CopyDefaults(heap),
             files |-> IF writable
                       THEN [files EXCEPT ![config_file] =
                                YamlFile(Dumped(heap, DEFAULT_CONFIG))]
                       ELSE files]

\* key_path.split('.') of the two-part paths the program uses
KeyPath(section, key) == << section, key >>

\* get(key_path, default)
get(heap, config, key_path, default) ==
    IF /\ key_path[1] \in DOMAIN config
       /\ key_path[2] \in DOMAIN heap[config[key_path[1]]]
    THEN heap[config[key_path[1]]][key_path[2]]
    ELSE default

\* set(key_path, value), for a section the config has: the section dict
\* the key is bound to is written in place
set(heap, config, key_path, value) ==
    LET object == config[key_path[1]]
    IN [heap EXCEPT ![object] =
           [k \in DOMAIN @ \cup {key_path[2]} |->
               IF k = key_path[2] THEN value ELSE @[k]]]

\* the command-line arguments update_from_args looks at
Args(interface, model, threshold, dashboard_port) ==
    [interface |-> interface, model |-> model, threshold |-> threshold,
     dashboard_port |-> dashboard_port]

\* update_from_args
update_from_args(heap, config, args) ==
    LET h1 == IF args.interface # None
              THEN set(heap, config, KeyPath("network", "interface"), args.interface)
              ELSE heap
        h2 == IF args.model # None
              THEN set(h1, config, KeyPath("detection", "model_path"), args.model)
              ELSE h1
        h3 == IF ~Falsy(args.threshold)
              THEN set(h2, config, KeyPath("detection", "confidence_threshold"),
                       args.threshold)
              ELSE h2
    IN IF args.dashboard_port # 0
       THEN set(h3, config, KeyPath("monitoring", "dashboard_port"),
                args.dashboard_port)
       ELSE h3

ConfigFilePaths == {"ids_config.yaml", "site.yaml"}

\* a file that overrides the confidence threshold only
UserOverride == [detection |-> [confidence_threshold |-> <<5, 10>>]]

TestArgs ==
    {Args("eth0", None, NoneDict, 0), Args(None, UserPath, <<9, 10>>, 0),
     Args(None, None, NoneDict, 9090), Args(None, None, NoneDict, 0)}

ConfigUnchanged ==
    UNCHANGED << envVars, appVars, ctorVars, packet_info, packet, ghostVars,
                 dashboard >>

\* the class has been defined; the files are absent, unreadable, or override
\* one key
InitConfig ==
    /\ ML_AVAILABLE = TRUE /\ fs = QuickOnly("valid") /\ os_name = "posix"
    /\ app = "unconstructed"
    /\ ml_model = None
    /\ is_monitoring = FALSE
    /\ simulation_mode = TRUE
    /\ sensitivity = 50
    /\ monitoring_mode = "unset"
    /\ socket = None
    /\ packets_analyzed = 0
    /\ threats_detected = 0
    /\ detected_threats_log = << >>
    /\ threat_breakdown = << >>
    /\ recent_packets = << >>
    /\ threads = << >>
    /\ clock = 0
    /\ NoCtor /\ NoGhost /\ NoDashboard
    /\ packet_info = NoneDict
    /\ packet = << >>
    /\ calls = << >>
    /\ config_files \in [ConfigFilePaths ->
                            {NoFile, CorruptFile, YamlFile(UserOverride)}]
    /\ config_heap = [i \in DOMAIN Sections |-> DefaultSection(Sections[i])]
    /\ configs = << >>

\* IDSConfig(config_file)
NewConfig(config_file, writable) ==
    /\ Len(configs) < MaxConfigs
    /\ LET r == _load_config(config_heap, config_files, config_file, writable)
       IN /\ config_heap' = r.loaded.heap
          /\ configs' = Append(configs, r.loaded.config)
          /\ config_files' = r.files
          /\ calls' = Append(calls,
                [fn |-> "IDSConfig", instance |-> Len(configs) + 1,
                 file |-> config_files[config_file]])
    /\ ConfigUnchanged

Sets == Cardinality({i \in DOMAIN calls : calls[i].fn \in {"set", "update_from_args"}})

\* configs[c].set(key_path, value)
SetConfig(c, key_path, value) ==
    /\ Sets < MaxSets
    /\ config_heap' = set(config_heap, configs[c], key_path, value)
    /\ calls' = Append(calls, [fn |-> "set", instance |-> c])
    /\ UNCHANGED << configs, config_files >>
    /\ ConfigUnchanged

\* configs[c].update_from_args(args)
UpdateConfigFromArgs(c, args) ==
    /\ Sets < MaxSets
    /\ config_heap' = update_from_args(config_heap, configs[c], args)
    /\ calls' = Append(calls, [fn |-> "update_from_args", instance |-> c])
    /\ UNCHANGED << configs, config_files >>
    /\ ConfigUnchanged

NextConfig ==
    \/ \E config_file \in ConfigFilePaths, writable \in BOOLEAN :
          NewConfig(config_file, writable)
    \/ \E c \in DOMAIN configs : SetConfig(c, KeyPath("monitoring", "dashboard_port"), 9090)
    \/ \E c \in DOMAIN configs, args \in TestArgs : UpdateConfigFromArgs(c, args)

SpecConfig == InitConfig /\ [][NextConfig]_vars

\* set or update_from_args has been called on instance c
Touched(c) ==
    \E i \in DOMAIN calls :
        calls[i].fn \in {"set", "update_from_args"} /\ calls[i].instance = c

\* the value the file instance c was built from gives key_path, or the
\* built-in default
Documented(c, key_path) ==
    LET made == calls[CHOOSE i \in DOMAIN calls :
                         calls[i].fn = "IDSConfig" /\ calls[i].instance = c]
        builtin == DefaultSection(key_path[1])[key_path[2]]
    IN IF /\ made.file.state = "yaml"
          /\ key_path[1] \in DOMAIN made.file.content
          /\ key_path[2] \in DOMAIN made.file.content[key_path[1]]
       THEN made.file.content[key_path[1]][key_path[2]]
       ELSE builtin

CheckedKeyPaths ==
    {KeyPath("monitoring", "dashboard_port"),
     KeyPath("detection", "confidence_threshold"),
     KeyPath("network", "interface"), KeyPath("detection", "model_path")}

\* C19: IDSConfig instances are isolated from the built-in defaults:
\* DEFAULT_CONFIG keeps the values of the class body whatever set and
\* update_from_args calls are made on instances, and an instance nothing
\* was set on answers get(key) with the value of its file or, without an
\* override, the documented default (dashboard_port 8080, confidence
\* threshold 0.8).
C19_InstancesIsolated ==
    /\ \A section \in DOMAIN DEFAULT_CONFIG :
          config_heap[DEFAULT_CONFIG[section]] = DefaultSection(section)
    /\ \A c \in DOMAIN configs :
          ~Touched(c) =>
              \A key_path \in CheckedKeyPaths :
                  get(config_heap, configs[c], key_path, None)
                      = Documented(c, key_path)

\* what does hold: an instance nothing has been set on, built while the
\* defaults were intact, answers with the documented values
C19_FreshInstanceDocumented ==
    (Len(configs) = 1 /\ Sets = 0) =>
        /\ get(config_heap, configs[1], KeyPath("monitoring", "dashboard_port"), None)
              = 8080
        /\ get(config_heap, configs[1], KeyPath("detection", "confidence_threshold"), None)
              \in {<<8, 10>>, <<5, 10>>}

\* ------------------------------------- the window statistics

\* the positions of the trailing window of a history
WindowPositions(history) ==
    {i \in DOMAIN history : i > Len(history) - WindowLen}

\* the windowed events of history that agree with event on every key of keys
Sharing(event, history, keys) ==
    {i \in WindowPositions(history) : \A k \in keys : history[i][k] = event[k]}

\* C21: count is the number of events among the last at most 100 of the
\* history that share the event's source address, capped at 100; srv_count
\* the number of those sharing its destination port, capped at 50; older
\* events have no influence, and 0 <= count <= 100, 0 <= srv_count <= 50.
C21_WindowedCounts ==
    \A i \in DOMAIN calls :
        calls[i].fn = "extract_packet_features" =>
            /\ calls[i].ret.kind = "return"
            /\ LET f == calls[i].ret.val
                   h == calls[i].history
                   count == DictGet(f, "count")
                   srv_count == DictGet(f, "srv_count")
                   same_src == Cardinality(Sharing(packet_info, h, {"src_ip"}))
                   same_srv == Cardinality(Sharing(packet_info, h, {"dst_port"}))
               IN /\ count = Num(IF same_src < CountCap THEN same_src ELSE CountCap)
                  /\ srv_count = Num(IF same_srv < SrvCountCap THEN same_srv
                                     ELSE SrvCountCap)
                  /\ NumLeq(Num(0), count) /\ NumLeq(count, Num(CountCap))
                  /\ NumLeq(Num(0), srv_count) /\ NumLeq(srv_count, Num(SrvCountCap))
                  /\ f = extract_packet_features(packet_info, LastN(h, WindowLen)).val

\* a call on a history of 101 events whose first, outside the window, has
\* the event's source, and whose other 100 share its port only up to the cap
C21_Witness ==
    /\ Len(calls) > 0
    /\ Len(calls[1].history) = WindowLen + 1
    /\ calls[1].history[1].src_ip = packet_info.src_ip
    /\ DictGet(calls[1].ret.val, "count") = Num(0)
    /\ Cardinality(Sharing(packet_info, calls[1].history, {"dst_port"})) = WindowLen
    /\ DictGet(calls[1].ret.val, "srv_count") = Num(SrvCountCap)

\* C22: dst_host_same_srv_rate is the number of windowed events sharing the
\* event's destination address and destination port divided by the number
\* sharing its destination address (0 when that number is 0),
\* dst_host_diff_srv_rate is 1 minus it floored at 0, and both lie in [0, 1].
C22_HostRatesRekeyed ==
    \A i \in DOMAIN calls :
        (calls[i].fn = "extract_packet_features" /\ calls[i].ret.kind = "return") =>
            LET f == calls[i].ret.val
                h == calls[i].history
                same == DictGet(f, "dst_host_same_srv_rate")
                diff == DictGet(f, "dst_host_diff_srv_rate")
                to_host == Cardinality(Sharing(packet_info, h, {"dst_ip"}))
                to_host_srv == Cardinality(Sharing(packet_info, h, {"dst_ip", "dst_port"}))
            IN /\ IF to_host = 0 THEN NumEq(same, Num(0))
                  ELSE NumEq(same, <<to_host_srv, to_host>>)
               /\ NumEq(diff, MaxZero(OneMinus(same)))
               /\ NumLeq(Num(0), same) /\ NumLeq(same, Num(1))
               /\ NumLeq(Num(0), diff) /\ NumLeq(diff, Num(1))

\* what the code computes: the events sharing the port, whatever their
\* destination, over the events sharing the destination address, at least 1
C22_CodeDividesPortCount ==
    \A i \in DOMAIN calls :
        (calls[i].fn = "extract_packet_features" /\ calls[i].history # << >>) =>
            NumEq(DictGet(calls[i].ret.val, "dst_host_same_srv_rate"),
                  << Cardinality(Sharing(packet_info, calls[i].history, {"dst_port"})),
                     IF Sharing(packet_info, calls[i].history, {"dst_ip"}) = {} THEN 1
                     ELSE Cardinality(Sharing(packet_info, calls[i].history, {"dst_ip"})) >>)

\* the names of the window-derived and of the session-level fields
WindowFieldNames == SeqToSet(DefaultNames)

SessionFieldNames ==
    {"hot", "num_failed_logins", "logged_in", "num_compromised", "root_shell",
     "su_attempted", "num_root", "num_file_creations", "num_shells",
     "num_access_files", "num_outbound_cmds", "is_host_login", "is_guest_login"}

\* C23: an event extracted with no history has every window-derived count
\* and rate and every session-level indicator equal to 0, in the row of the
\* application and in the row of the monitor.
C23_NoHistoryAllZero ==
    \A i \in DOMAIN calls :
        calls[i].fn = "encode" =>
            \A k \in DOMAIN ai_feature_columns :
                ai_feature_columns[k] \in WindowFieldNames \cup SessionFieldNames =>
                    /\ NumEq(calls[i].web[k], Num(0))
                    /\ NumEq(calls[i].monitor[k], Num(0))

\* what does hold: the application's row is 0 there, and the monitor's is 0
\* except for the six fields it sets to 1
C23_MonitorDefaultsOne ==
    \A i \in DOMAIN calls :
        calls[i].fn = "encode" =>
            \A k \in DOMAIN ai_feature_columns :
                ai_feature_columns[k] \in WindowFieldNames \cup SessionFieldNames =>
                    /\ NumEq(calls[i].web[k], Num(0))
                    /\ NumEq(calls[i].monitor[k],
                             IF feature_order[k] \in
                                    {"count", "srv_count", "same_srv_rate",
                                     "dst_host_count", "dst_host_srv_count",
                                     "dst_host_same_srv_rate"}
                             THEN Num(1) ELSE Num(0))

\* ------------------------------------- the monitor's threshold test

\* the processing thread goes through lines 238-265 in this step with a
\* packet that has features and a model that answers `answer`
ClassifiedWith(answer) ==
    /\ ~Falsy(monitor)
    /\ answer.kind = "return"
    /\ Self.processing_thread.pc = "classify"
    /\ ~Falsy(extract_features(Self.processing_thread.packet))
    /\ \E saved \in BOOLEAN, now \in {Self.now, Self.now + RateWindow} :
          MonitorClassify(answer, now, saved)

\* the answer is an attack with a confidence above the threshold
AboveThreshold(answer) ==
    /\ answer.val.predictions # "normal"
    /\ ~Falsy(answer.val.probabilities)
    /\ NumGt(answer.val.probabilities, Self.alert_threshold)

\* C24: process_packets hands a packet to threat handling exactly when its
\* label is not 'normal' and its confidence is strictly above
\* alert_threshold; a result without a confidence (a model without class
\* probabilities) raises no error and is counted once in packets_processed.
C24_ThreatIffAttackAboveThreshold ==
    [][\A answer \in ModelAnswers :
          ClassifiedWith(answer) =>
              /\ calls'[Len(calls')].outcome = "threat" <=> AboveThreshold(answer)
              /\ calls'[Len(calls')].outcome # "error"
              /\ monitor'.ret.val.packets_processed = Self.packets_processed + 1
      ]_vars

\* what does hold: the packet is counted once, handed over exactly when the
\* answer is above the threshold, and the only error is the comparison of a
\* missing confidence of an attack
C24_ErrorOnlyForAttackWithoutConfidence ==
    [][\A answer \in ModelAnswers :
          ClassifiedWith(answer) =>
              /\ calls'[Len(calls')].outcome = "threat" <=> AboveThreshold(answer)
              /\ calls'[Len(calls')].outcome = "error" <=>
                    /\ answer.val.predictions # "normal"
                    /\ Falsy(answer.val.probabilities)
              /\ monitor'.ret.val.packets_processed = Self.packets_processed + 1
      ]_vars

\* ------------------------------------- the threat log

\* C25: detected_threats_log is append-only: every step of the application
\* (start_monitoring, stop_monitoring, reset_stats, the loops) leaves it
\* unchanged or extends it at its end.
C25_ThreatLogAppendOnly ==
    [][/\ Len(detected_threats_log') >= Len(detected_threats_log)
       /\ SubSeq(detected_threats_log', 1, Len(detected_threats_log))
             = detected_threats_log]_vars

\* what does hold: only a start_monitoring that starts (it spawns a thread)
\* shortens the log, and it empties it
C25_OnlyStartClears ==
    [][Len(detected_threats_log') < Len(detected_threats_log) =>
          /\ Len(threads') = Len(threads) + 1
          /\ detected_threats_log' = << >>]_vars

\* ------------------------------------- the flag and the worker

\* C26: whenever is_monitoring is true a monitoring-loop worker is alive:
\* no loop ends while the flag is still set.
C26_MonitoringHasWorker ==
    is_monitoring => \E t \in DOMAIN threads : threads[t].pc # "done"

\* what does hold: the simulation loop ends only with the flag down
C26_SimulationLoopEndsOnlyWhenStopped ==
    [][\A t \in DOMAIN threads :
          (threads[t].pc = "sim_check" /\ threads'[t].pc = "done") =>
              ~is_monitoring]_vars

\* ------------------------------------- the counters

\* C27: threats_detected <= packets_analyzed in every reachable state of the
\* application, under every interleaving of the worker with
\* start_monitoring, stop_monitoring and reset_stats.
C27_ThreatsAtMostPackets == threats_detected <= packets_analyzed

\* ------------------------------------- the monitor's queue at capacity

\* a full() that never says full
QueueNeverFull(q) == FALSE

\* line 224: self.packet_queue.full()
QueueFull(q) == Len(q) >= QueueMaxsize

\* line 225: put(packet, block=False) raises queue.Full on a full queue
QueuePutNowait(q, pkt) ==
    IF Len(q) >= QueueMaxsize THEN Raise("queue.Full") ELSE Ret(Append(q, pkt))

\* ARP frames that arrived before the run and wait in the queue
Backlog(n) ==
    [i \in 1..n |-> ScapyPacket(i - n, {"Ether", "ARP"}, IpA, IpB, 0, 0, 42)]

\* the monitor after start_monitoring, the worker not yet past its first
\* loop test, and the capture one packet short of filling the queue or
\* having just filled it
InitQueue ==
    /\ ML_AVAILABLE = TRUE
    /\ fs = [path \in ModelPaths |-> "valid"]
    /\ os_name = "posix"
    /\ app = "unconstructed"
    /\ ml_model = None
    /\ is_monitoring = FALSE
    /\ simulation_mode = TRUE
    /\ sensitivity = 50
    /\ monitoring_mode = "unset"
    /\ socket = None
    /\ packets_analyzed = 0
    /\ threats_detected = 0
    /\ detected_threats_log = << >>
    /\ threat_breakdown = << >>
    /\ recent_packets = << >>
    /\ threads = << >>
    /\ clock = 0
    /\ detector = NoneDict
    /\ NoGhost /\ NoDashboard /\ NoConfig
    /\ \E n \in {QueueMaxsize - 1, QueueMaxsize} :
          monitor = [model_path |-> None,
                     ret |-> Ret([RealTimeIDSMonitorInit(None, fs).val EXCEPT
                                     !.is_running = TRUE, !.started = TRUE,
                                     !.sniffing = TRUE,
                                     !.processing_thread = Worker("check", NoneDict),
                                     !.packet_queue = Backlog(n)])]
    /\ packet_info = NoneDict
    /\ packet = << >>
    /\ calls = << [fn |-> "start_monitoring"] >>

HandlerUnchanged ==
    UNCHANGED << envVars, configVars, dashboard, appVars, detector, packet, ghostVars >>

\* packet_handler, line 224: the capture thread tests full(); a full queue
\* drops the packet (line 227), otherwise the thread goes on to the put
\* holding pkt
HandlerTest(pkt) ==
    /\ Self.sniffing
    /\ Falsy(packet_info)
    /\ Delivered < MaxArrivals
    /\ IF QueueFull(Self.packet_queue)
       THEN /\ calls' = Append(calls, [fn |-> "packet_handler", seq |-> pkt.seq,
                                       queued |-> FALSE, raised |-> FALSE])
            /\ packet_info' = packet_info
       ELSE /\ calls' = calls
            /\ packet_info' = pkt
    /\ monitor' = monitor
    /\ HandlerUnchanged

\* packet_handler, line 225: the put, and the except of lines 228-229
HandlerPut ==
    /\ ~Falsy(packet_info)
    /\ LET put == QueuePutNowait(Self.packet_queue, packet_info)
       IN IF put.kind = "raise"
          THEN /\ monitor' = monitor
               /\ calls' = Append(calls, [fn |-> "packet_handler",
                                          seq |-> packet_info.seq,
                                          queued |-> FALSE, raised |-> TRUE])
          ELSE /\ monitor' = [monitor EXCEPT !.ret.val.packet_queue = put.val]
               /\ calls' = Append(calls, [fn |-> "packet_handler",
                                          seq |-> packet_info.seq,
                                          queued |-> TRUE, raised |-> FALSE])
    /\ packet_info' = NoneDict
    /\ HandlerUnchanged

Gets == Cardinality({i \in DOMAIN calls : calls[i].fn = "get"})

\* the capture callback in its two steps beside the worker, which takes at
\* most MaxArrivals packets of the backlog
NextQueue ==
    \/ \E pkt \in ScapyPackets(Delivered + 1) : HandlerTest(pkt)
    \/ HandlerPut
    \/ MonitorStop
    \/ MonitorCheck
    \/ Gets < MaxArrivals /\ MonitorGet
    \/ \E answer \in ModelAnswers : MonitorClassify(answer, Self.now, TRUE)

SpecQueue == InitQueue /\ [][NextQueue]_vars

\* the capture callback has dropped a packet in this step
Dropped ==
    /\ Len(calls') = Len(calls) + 1
    /\ calls'[Len(calls')].fn = "packet_handler"
    /\ ~calls'[Len(calls')].queued

\* C28: the packet queue never holds more than 1000 packets; on a full queue
\* packet_handler drops the packet and leaves the queue as it was; and
\* however the capture callback and the worker interleave, packet_handler
\* never meets queue.Full at its put.
C28_QueueBoundedHandlerNeverRaises ==
    /\ [](Len(Self.packet_queue) <= QueueMaxsize)
    /\ [](\A i \in DOMAIN calls :
             calls[i].fn = "packet_handler" => ~calls[i].raised)
    /\ [][Dropped => /\ Len(Self.packet_queue) = QueueMaxsize
                     /\ monitor'.ret.val.packet_queue = Self.packet_queue]_vars

\* a packet was dropped on the full queue, and after the worker had taken
\* one a later packet went in and filled the queue again
C28_Witness ==
    /\ Len(Self.packet_queue) = QueueMaxsize
    /\ \E i, j, k \in DOMAIN calls :
          /\ i < j /\ j < k
          /\ calls[i].fn = "packet_handler" /\ ~calls[i].queued
          /\ calls[j].fn = "get"
          /\ calls[k].fn = "packet_handler" /\ calls[k].queued

\* ------------------------------------- the monitor's rate limit

\* TCP packets of two sources
RatePackets(seq) ==
    {ScapyPacket(seq, {"Ether", "IP", "TCP"}, IpA, IpB, 80, 2, 60),
     ScapyPacket(seq, {"Ether", "IP", "TCP"}, IpB, IpA, 80, 2, 60)}

\* the object after n packets of the first source, delivered before the
\* run, were each classified an attack at time 0
RECURSIVE AfterDetections(_, _)
AfterDetections(self, n) ==
    IF n = 0 THEN self
    ELSE ProcessOne(AfterDetections(self, n - 1),
                    ScapyPacket(0 - n, {"Ether", "IP", "TCP"}, IpA, IpB, 80, 2, 60),
                    ModelAnswer("neptune", <<9, 10>>), 0, TRUE).self

\* the monitor running, 4 or 9 detections of one source behind it
InitRate ==
    /\ ML_AVAILABLE = TRUE
    /\ fs = [path \in ModelPaths |-> "valid"]
    /\ os_name = "posix"
    /\ app = "unconstructed"
    /\ ml_model = None
    /\ is_monitoring = FALSE
    /\ simulation_mode = TRUE
    /\ sensitivity = 50
    /\ monitoring_mode = "unset"
    /\ socket = None
    /\ packets_analyzed = 0
    /\ threats_detected = 0
    /\ detected_threats_log = << >>
    /\ threat_breakdown = << >>
    /\ recent_packets = << >>
    /\ threads = << >>
    /\ clock = 0
    /\ detector = NoneDict
    /\ NoGhost /\ NoDashboard /\ NoConfig
    /\ \E n \in {RateMax - 1, RateLimitMaxlen - 1} :
          monitor = [model_path |-> None,
                     ret |-> Ret(AfterDetections(
                                [RealTimeIDSMonitorInit(None, fs).val EXCEPT
                                    !.is_running = TRUE, !.started = TRUE,
                                    !.sniffing = TRUE,
                                    !.processing_thread = Worker("check", NoneDict)],
                                n))]
    /\ packet_info = NoneDict
    /\ packet = << >>
    /\ calls = << [fn |-> "start_monitoring"] >>

\* attacks of two sources, classified at once, half a minute or a minute
\* after the previous one
NextRate ==
    \/ \E pkt \in RatePackets(Delivered + 1) : MonitorPacketHandler(pkt)
    \/ MonitorCheck
    \/ MonitorGet
    \/ \E saved \in BOOLEAN :
          \E now \in {Self.now, Self.now + RateWindow \div 2, Self.now + RateWindow} :
             MonitorClassify(ModelAnswer("neptune", <<9, 10>>), now, saved)

SpecRate == InitRate /\ [][NextRate]_vars

\* the alerts of log for the source of log[i] in the minute ending with it
AlertsInWindow(log, i) ==
    {j \in 1..i :
        /\ log[j].source_ip = log[i].source_ip
        /\ log[i].timestamp - log[j].timestamp < RateWindow}

\* the detections of the source in the minute ending now that the monitor
\* remembers, this one included
Remembered(src_ip, now) ==
    Len(SelectSeq(RateLimitOf(Self, src_ip), LAMBDA t : now - t < RateWindow)) + 1

\* the worker has handled a detection in this step
Detection ==
    /\ Len(calls') = Len(calls) + 1
    /\ calls'[Len(calls')].fn = "processed"
    /\ calls'[Len(calls')].outcome = "threat"

\* C29: for every source address at most 5 alerts are recorded, in
\* recent_alerts and in the alert file, within any window of 60 seconds;
\* every further detection of the address in the window still increments
\* threats_detected but records nothing, so the recorded alerts never
\* outnumber threats_detected.
C29_RateLimitedPerSource ==
    /\ [](\A i \in DOMAIN Self.recent_alerts :
             Cardinality(AlertsInWindow(Self.recent_alerts, i)) <= RateMax)
    /\ [](\A i \in DOMAIN Self.alert_file :
             Cardinality(AlertsInWindow(Self.alert_file, i)) <= RateMax)
    /\ [](/\ Len(Self.recent_alerts) <= Self.threats_detected
          /\ Len(Self.alert_file) <= Self.threats_detected)
    /\ [][Detection =>
             /\ monitor'.ret.val.threats_detected = Self.threats_detected + 1
             /\ Remembered(Self.processing_thread.packet.src,
                           monitor'.ret.val.now) > RateMax =>
                   /\ monitor'.ret.val.recent_alerts = Self.recent_alerts
                   /\ monitor'.ret.val.alert_file = Self.alert_file]_vars

\* the sixth detection of a source within the minute was counted and not
\* recorded, and a later one, the minute over, was recorded again
C29_Witness ==
    /\ Self.threats_detected > Len(Self.recent_alerts)
    /\ Len(Self.recent_alerts) > RateMax
    /\ \A i \in DOMAIN Self.recent_alerts : Self.recent_alerts[i].source_ip = IpA
    /\ Len(Self.alert_file) > RateMax

\* ------------------------------------- IntegratedIDS: the dashboard

\* IDSDashboard.__init__: alerts = deque(maxlen=1000)
IDSDashboard == [alerts |-> << >>]

\* IDSDashboard.add_alert
add_alert(dash, alert) ==
    [dash EXCEPT !.alerts = DequeAppendMax(@, alert, DashboardAlertsMaxlen)]

\* the alert enhanced_handle_threat builds
DashboardAlert(features, result, now) ==
    [timestamp |-> now,
     source_ip |-> DictGet(features, "src_ip"),
     destination_ip |-> DictGet(features, "dst_ip"),
     attack_type |-> result.prediction,
     confidence |-> result.confidence,
     protocol |-> DictGet(features, "protocol_type"),
     service |-> DictGet(features, "service"),
     packet_size |-> DictGet(features, "src_bytes")]

\* enhanced_handle_threat, which _setup_dashboard_integration puts in the
\* place of _handle_threat_detection: the original method, then add_alert
enhanced_handle_threat(self, dash, features, result, now, saved) ==
    [self |-> _handle_threat_detection(self, features, result, now, saved),
     dashboard |-> IF ~Falsy(dash)
                   THEN add_alert(dash, DashboardAlert(features, result, now))
                   ELSE dash]

\* the monitor and the dashboard after n packets of the first source,
\* delivered before the run, were each classified an attack at time 0
RECURSIVE AfterEnhanced(_, _, _)
AfterEnhanced(self, dash, n) ==
    IF n = 0 THEN [self |-> self, dashboard |-> dash]
    ELSE LET before == AfterEnhanced(self, dash, n - 1)
             pkt == ScapyPacket(0 - n, {"Ether", "IP", "TCP"}, IpA, IpB, 80, 2, 60)
         IN enhanced_handle_threat(
               [before.self EXCEPT !.packets_processed = @ + 1],
               before.dashboard, extract_features(pkt),
               predict_single(ModelAnswer("neptune", <<9, 10>>)).val, 0, TRUE)

\* IntegratedIDS after start_dashboard and start_monitoring, 3 or 4
\* detections of one source behind it
InitIntegrated ==
    /\ ML_AVAILABLE = TRUE
    /\ fs = [path \in ModelPaths |-> "valid"]
    /\ os_name = "posix"
    /\ app = "unconstructed"
    /\ ml_model = None
    /\ is_monitoring = FALSE
    /\ simulation_mode = TRUE
    /\ sensitivity = 50
    /\ monitoring_mode = "unset"
    /\ socket = None
    /\ packets_analyzed = 0
    /\ threats_detected = 0
    /\ detected_threats_log = << >>
    /\ threat_breakdown = << >>
    /\ recent_packets = << >>
    /\ threads = << >>
    /\ clock = 0
    /\ detector = NoneDict
    /\ processed = << >> /\ extraction = NoneDict
    /\ NoConfig
    /\ \E n \in {RateMax - 2, RateMax - 1} :
          LET after == AfterEnhanced(
                          [RealTimeIDSMonitorInit(None, fs).val EXCEPT
                              !.is_running = TRUE, !.started = TRUE,
                              !.sniffing = TRUE,
                              !.processing_thread = Worker("check", NoneDict)],
                          IDSDashboard, n)
          IN /\ monitor = [model_path |-> None, ret |-> Ret(after.self)]
             /\ dashboard = after.dashboard
    /\ packet_info = NoneDict
    /\ packet = << >>
    /\ calls = << [fn |-> "start_monitoring"] >>

\* the worker's classification with enhanced_handle_threat in the place of
\* the monitor's method
IntegratedClassify(answer, now, saved) ==
    /\ Self.processing_thread.pc = "classify"
    /\ LET pkt == Self.processing_thread.packet
           one == ProcessOne(Self, pkt, answer, now, saved)
       IN /\ monitor' = [monitor EXCEPT !.ret.val =
                            [one.self EXCEPT !.processing_thread =
                                Worker(LoopAgain, NoneDict)]]
          /\ calls' = calls \o << [fn |-> "processed", seq |-> pkt.seq,
                                   outcome |-> one.outcome] >>
          /\ dashboard' =
                IF one.outcome = "threat"
                THEN enhanced_handle_threat(Self, dashboard,
                        extract_features(pkt), predict_single(answer).val,
                        now, saved).dashboard
                ELSE dashboard
    /\ UNCHANGED << envVars, configVars, appVars, detector, packet_info,
                    packet, ghostVars >>

NextIntegrated ==
    \/ \E pkt \in RatePackets(Delivered + 1) : MonitorPacketHandler(pkt)
    \/ MonitorCheck
    \/ MonitorGet
    \/ \E saved \in BOOLEAN :
          \E answer \in {ModelAnswer("neptune", <<9, 10>>),
                         ModelAnswer("normal", <<9, 10>>)} :
             \E now \in {Self.now, Self.now + RateWindow} :
                IntegratedClassify(answer, now, saved)

SpecIntegrated == InitIntegrated /\ [][NextIntegrated]_vars

\* the alert without its timestamp, which the monitor writes as a date and
\* the dashboard as seconds
Untimed(alert) ==
    [k \in DOMAIN alert \ {"timestamp"} |-> alert[k]]

\* C30: with dashboard integration enabled, a detection is added to the
\* dashboard's alert list if and only if the monitor recorded it as an alert:
\* the dashboard's alerts and the monitor's recorded alerts are the same
\* alerts in the same order.
C30_DashboardMirrorsAlerts ==
    ~Falsy(dashboard) =>
       /\ Len(dashboard.alerts) = Len(Self.recent_alerts)
       /\ \A i \in DOMAIN dashboard.alerts :
             Untimed(dashboard.alerts[i]) = Untimed(Self.recent_alerts[i])

====
